---- MODULE Spec2Model ----
(***************************************************************************)
(* Model of the chapter-directory scraper of Novel-crawler                 *)
(* (src/analysis_index.py, src/keledushu_index.py).                        *)
(*                                                                         *)
(* A parsed page is represented by the DOM features the code queries: a    *)
(* page is a sequence of blocks (dl, ul.chapter, loose anchors, select),   *)
(* an anchor is an href and a text, an href is a record [kind, n]:         *)
(*   num   "<n>.html"            numq  "<n>.html?from=x"                   *)
(*   word  "intro<n>.html"       frag  "#top"                              *)
(*   js    "javascript:;"        php   "book<n>.php"                       *)
(*   nav   "/sort/<n>.html"      page  "index_<n>.html"                    *)
(*   plist "list_<n>.html"       xpage "/other/index_<n>.html"             *)
(* and a text is a record [kind, n]:                                       *)
(*   chap  "第<n>章 ..."          zhang "第<n>掌 ..."                        *)
(*   typo  "底<n>张 ..."          bare  "番外 <n>"                           *)
(*   plain a text without digits  noise "加入书架"                          *)
(*   blank white space only      empty no text                             *)
(* A chapter number that Python leaves None is written 0; the chapter      *)
(* numbers of the model are all >= 1.                                      *)
(***************************************************************************)
EXTENDS Integers, Sequences, FiniteSets, TLC

\* ------------------------------------------------------------ bounds
\* highest page number a page-picker option or pagination link names
MaxPage == 3
\* highest value of the retries argument of fetch_html
MaxRetries == 3
\* longest response body, in byte groups
MaxBody == 2
\* the batch length of _extract_chapters_in_batches (500 in the source), scaled
\* to the pages of the model
BatchSize == 2
\* the link estimate above which the batch mode is used (3000 in the source),
\* scaled to the pages of the model
EstimateMin == 2
\* most elements of a chapter page
MaxEls == 2
\* the numerals of 1..MaxNumeral are all handed to _chinese_numeral_to_int
MaxNumeral == 120
\* highest stored read position and longest refreshed chapter list
MaxIndex == 8
MaxChapters == 6
\* the longest run of consecutive chapter numbers of a small container
MaxRun == 6
\* highest chapter number in the titles and urls handed to the chapter-number parsers
MaxChapNum == 3
\* longest title, in characters, handed to _normalize_title
MaxTitle == 4
\* the number of chapters of the book the reader has open
MaxSlots == 2

\* ------------------------------------------------------------ program constants
WEAK_LIST_MIN == 5
WEAK_GLOBAL_MIN == 20
LI_MIN == 5
GAP_MIN_NUMS == 5
GAP_LIMIT == 240
GAP_LIMIT_LARGE == 120
GAP_LARGE_ENTRIES == 1500

\* the text length a div must exceed to be the fallback content container
CONTENT_MIN_CHARS == 120

\* ------------------------------------------------------------ sequences
RECURSIVE Flatten(_)
Flatten(ss) == IF ss = <<>> THEN <<>> ELSE Head(ss) \o Flatten(Tail(ss))

RECURSIVE Reverse(_)
Reverse(s) == IF s = <<>> THEN <<>> ELSE Reverse(Tail(s)) \o <<Head(s)>>

Range(s) == {s[i] : i \in 1..Len(s)}

\* the injective sequences over the set S: the orders in which Python may
\* iterate a set of str (hash order is not fixed across interpreter runs)
Orders(S) == {q \in [1..Cardinality(S) -> S] : \A i, j \in 1..Cardinality(S) : q[i] = q[j] => i = j}

\* ------------------------------------------------------------ urls, titles
Url(kind, n) == [kind |-> kind, n |-> n]
base_url == Url("base", 0)

Title(kind, n) == [kind |-> kind, n |-> n]
NoTitle == Title("none", 0)

A(href, text) == [href |-> href, text |-> text, hidden |-> FALSE]
\* an anchor inside an HTML comment: the parser does not see it, a regular
\* expression over the serialized container does
HiddenA(href, text) == [href |-> href, text |-> text, hidden |-> TRUE]

\* _RE_NUM_HTML_TAIL: the digits before ".html" at the end of the url, 0 if none
NumTail(u) == IF u.kind \in {"num", "nav", "page", "plist", "xpage"} THEN u.n ELSE 0

\* the page number _RE_PAGINATION reads from a url path, 0 if it does not match
PaginationNum(u) == IF u.kind \in {"page", "plist", "xpage"} THEN u.n ELSE 0

abs_url(cur, href) ==
    CASE href.kind = "numq" -> Url("num", href.n)
      [] href.kind = "frag" -> cur
      [] OTHER -> href

is_chapter_href(u) == u.kind \in {"num", "word", "nav", "page", "plist", "xpage"}

is_nav_path(u) == u.kind \in {"nav", "page", "xpage"}

is_noise_href(href) == href.kind = "frag"

clean_text(t) == IF t.kind = "blank" THEN Title("empty", 0) ELSE t

normalize_title(t) ==
    LET c == clean_text(t)
    IN IF c.kind = "typo" THEN Title("chap", c.n) ELSE c

is_noise_title(t) == normalize_title(t).kind = "noise"

TitleOrNone(t) == IF t.kind = "empty" THEN NoTitle ELSE t

Entry(t, u) == [title |-> t, url |-> u]

\* the result of _entry_from_anchor as a sequence: <<>> for None, <<e>> for e
entry_from_anchor(a, cur) ==
    IF is_noise_href(a.href) THEN <<>>
    ELSE LET href == abs_url(cur, a.href)
         IN IF ~is_chapter_href(href) \/ is_nav_path(href) THEN <<>>
            ELSE LET title == normalize_title(clean_text(a.text))
                 IN IF is_noise_title(title) THEN <<>>
                    ELSE <<Entry(TitleOrNone(title), href)>>

parse_chapnum(t, u) ==
    IF NumTail(u) # 0 THEN NumTail(u)
    ELSE LET norm == normalize_title(t)
         IN IF norm.kind \in {"chap", "zhang", "bare"} THEN norm.n ELSE 0

\* entries of the anchors of a sequence, None results skipped, no de-duplication
EntriesOf(anchors, cur) ==
    Flatten([i \in 1..Len(anchors) |-> IF anchors[i].hidden THEN <<>> ELSE entry_from_anchor(anchors[i], cur)])

RECURSIVE DedupFrom(_, _)
DedupFrom(es, seen) ==
    IF es = <<>> THEN <<>>
    ELSE IF Head(es).url \in seen THEN DedupFrom(Tail(es), seen)
         ELSE <<Head(es)>> \o DedupFrom(Tail(es), seen \cup {Head(es).url})

\* ------------------------------------------------------------ _finalize_entries
\* mutant: the synthesized title always takes the position
Synth_by_index(i, chapnum) == Title("chap", i)

Synth(i, chapnum) == Title("chap", IF chapnum = 0 THEN i ELSE chapnum)

FinalRecord(i, e) ==
    LET chapnum == IF NumTail(e.url) # 0 THEN NumTail(e.url) ELSE parse_chapnum(e.title, e.url)
        title == normalize_title(IF e.title.kind \in {"none", "empty"} THEN Synth(i, chapnum) ELSE e.title)
    IN [index |-> i, title |-> title, url |-> e.url, chapter_num |-> chapnum]

\* mutants of _finalize_entries: no de-duplication; numbering before
\* de-duplication; ordering by chapter number
finalize_entries_nodedup(es) == [i \in 1..Len(es) |-> FinalRecord(i, es[i])]

finalize_entries_rawindex(es) == DedupFrom([i \in 1..Len(es) |-> FinalRecord(i, es[i])], {})

RECURSIVE InsertByNum(_, _)
InsertByNum(e, sorted) ==
    IF sorted = <<>> THEN <<e>>
    ELSE IF NumTail(Head(sorted).url) <= NumTail(e.url) THEN <<Head(sorted)>> \o InsertByNum(e, Tail(sorted))
         ELSE <<e>> \o sorted

RECURSIVE SortByNum(_)
SortByNum(es) == IF es = <<>> THEN <<>> ELSE InsertByNum(es[Len(es)], SortByNum(SubSeq(es, 1, Len(es) - 1)))

finalize_entries_sorted(es) ==
    LET cleaned == SortByNum(DedupFrom(es, {}))
    IN [i \in 1..Len(cleaned) |-> FinalRecord(i, cleaned[i])]

finalize_entries(es) ==
    LET cleaned == DedupFrom(es, {})
    IN [i \in 1..Len(cleaned) |-> FinalRecord(i, cleaned[i])]

\* ------------------------------------------------------------ pages
Group(dt, dds) == [dt |-> dt, dds |-> dds]
Dl(inList, groups) == [t |-> "dl", inList |-> inList, groups |-> groups]
Ul(id, hint, intro, items) == [t |-> "ul", id |-> id, hint |-> hint, intro |-> intro, items |-> items]
Loose(items) == [t |-> "a", items |-> items]
Select(opts) == [t |-> "select", opts |-> opts]

IsDl(b) == b.t = "dl"
IsUl(b) == b.t = "ul"

DlBlocks(page) == SelectSeq(page, IsDl)
UlBlocks(page) == SelectSeq(page, IsUl)

\* dl.find_all("dd"), each dd by its first anchor
AllDd(dl) == Flatten([g \in 1..Len(dl.groups) |-> dl.groups[g].dds])

\* soup.find_all("a", href=True) in document order
BlockAnchors(b) ==
    CASE b.t = "dl" -> AllDd(b)
      [] b.t = "ul" -> b.items
      [] b.t = "a" -> b.items
      [] OTHER -> <<>>

AllAnchors(page) == Flatten([i \in 1..Len(page) |-> BlockAnchors(page[i])])

\* soup.find_all("option"), each option by its value
BlockOptions(b) == IF b.t = "select" THEN b.opts ELSE <<>>

Options(page) == Flatten([i \in 1..Len(page) |-> BlockOptions(page[i])])

\* ------------------------------------------------------------ _extract_from_dl_structure
GroupEntries(dl, kinds, cur) ==
    Flatten([g \in 1..Len(dl.groups) |->
        IF dl.groups[g].dt \in kinds THEN EntriesOf(dl.groups[g].dds, cur) ELSE <<>>])

\* mutant: a dt that matches both patterns is not taken as a body group
main_chapters_strict(dls, cur) ==
    Flatten([d \in 1..Len(dls) |-> GroupEntries(dls[d], {"main"}, cur)])

main_chapters(dls, cur) ==
    Flatten([d \in 1..Len(dls) |-> GroupEntries(dls[d], {"main", "both"}, cur)])

latest_chapters(dls, cur) ==
    Flatten([d \in 1..Len(dls) |-> GroupEntries(dls[d], {"latest"}, cur)])

RECURSIVE WeakScan(_, _, _)
WeakScan(dls, collected, cur) ==
    IF dls = <<>> THEN (IF Len(collected) >= WEAK_GLOBAL_MIN THEN collected ELSE <<>>)
    ELSE LET c2 == collected \o EntriesOf(AllDd(Head(dls)), cur)
         IN IF Head(dls).inList /\ Len(c2) >= WEAK_LIST_MIN THEN c2
            ELSE WeakScan(Tail(dls), c2, cur)

extract_from_dl_structure(dls, cur) ==
    LET mc == main_chapters(dls, cur)
        lc == latest_chapters(dls, cur)
    IN IF mc # <<>> THEN mc
       ELSE IF lc # <<>> THEN Reverse(lc)
       ELSE WeakScan(dls, <<>>, cur)

\* ------------------------------------------------------------ container choice
\* <<>> when no container is chosen, <<ul>> otherwise
FirstOf(m) == IF m = <<>> THEN <<>> ELSE <<Head(m)>>

HasId2(u) == u.id \in {"self2", "in2"}
HasIdIn1(u) == u.id = "in1"
HasHint(u) == u.hint

LiCount(u) == Len(SelectSeq(u.items, LAMBDA a : ~a.hidden))

\* sorted(uls, key=li count, reverse=True)[0]: the first ul of the largest count
LongestUl(uls) ==
    LET best == CHOOSE i \in 1..Len(uls) :
                  /\ \A j \in 1..Len(uls) : LiCount(uls[j]) <= LiCount(uls[i])
                  /\ \A j \in 1..(i - 1) : LiCount(uls[j]) < LiCount(uls[i])
    IN uls[best]

\* mutant: a container is taken only when it yields an accepted entry
all_chapters_ul_yielding(page) ==
    LET yielding == SelectSeq(UlBlocks(page), LAMBDA u : EntriesOf(u.items, base_url) # <<>>)
        byId2 == FirstOf(SelectSeq(yielding, HasId2))
        byId1 == FirstOf(SelectSeq(yielding, HasIdIn1))
        hinted == FirstOf(SelectSeq(yielding, HasHint))
    IN IF byId2 # <<>> THEN byId2
       ELSE IF byId1 # <<>> THEN byId1
       ELSE IF hinted # <<>> THEN hinted
       ELSE <<>>

all_chapters_ul(page) ==
    LET uls == UlBlocks(page)
        byId2 == FirstOf(SelectSeq(uls, HasId2))
        byId1 == FirstOf(SelectSeq(uls, HasIdIn1))
        hinted == FirstOf(SelectSeq(uls, HasHint))
    IN IF byId2 # <<>> THEN byId2
       ELSE IF byId1 # <<>> THEN byId1
       ELSE IF uls = <<>> THEN <<>>
       ELSE IF hinted # <<>> THEN hinted
       ELSE IF LiCount(LongestUl(uls)) >= LI_MIN THEN <<LongestUl(uls)>>
       ELSE <<>>

\* ------------------------------------------------------------ primary entries
primary_entries(page, cont, cur) ==
    IF cont # <<>> THEN DedupFrom(EntriesOf(cont[1].items, cur), {})
    ELSE DedupFrom(EntriesOf(AllAnchors(page), cur), {})

\* _RE_ANCHOR_IN_UL over str(ul): href="<digits>.html" and a text of >= 1 character
RegexVisible(a) == a.href.kind = "num" /\ a.text.kind # "empty"

RECURSIVE SuppScan(_, _, _)
SuppScan(anchors, es, cur) ==
    IF anchors = <<>> THEN es
    ELSE LET a == Head(anchors)
             url_abs == abs_url(cur, a.href)
             title_text == normalize_title(clean_text(a.text))
         IN IF RegexVisible(a) /\ is_chapter_href(url_abs) /\ url_abs \notin {e.url : e \in Range(es)}
            THEN SuppScan(Tail(anchors), Append(es, Entry(TitleOrNone(title_text), url_abs)), cur)
            ELSE SuppScan(Tail(anchors), es, cur)

supplement_entries_from_ul(es, cont, cur) ==
    IF cont = <<>> THEN es ELSE SuppScan(cont[1].items, es, cur)

\* ------------------------------------------------------------ gap filling
\* the chapter number the gap-filling pass reads from an entry, 0 for None
EntryNum(e) == IF NumTail(e.url) # 0 THEN NumTail(e.url) ELSE parse_chapnum(e.title, e.url)

NumsOf(es) == LET ns == [i \in 1..Len(es) |-> EntryNum(es[i])] IN SelectSeq(ns, LAMBDA n : n # 0)

SetMin(S) == CHOOSE x \in S : \A y \in S : x <= y
SetMax(S) == CHOOSE x \in S : \A y \in S : y <= x

\* sorted(S): the element at position i has i - 1 smaller elements
SortedSeq(S) == [i \in 1..Cardinality(S) |-> CHOOSE x \in S : Cardinality({y \in S : y < x}) = i - 1]

Take(s, n) == IF Len(s) > n THEN SubSeq(s, 1, n) ELSE s

\* mutant: one cap whatever the length of the list
gap_limit_flat(es) == GAP_LIMIT

gap_limit(es) == IF Len(es) > GAP_LARGE_ENTRIES THEN GAP_LIMIT_LARGE ELSE GAP_LIMIT

\* the missing numbers the pass probes, in probing order
gap_missing(es, cont) ==
    LET nums == NumsOf(es)
        present == Range(nums)
    IN IF Len(nums) < GAP_MIN_NUMS \/ cont = <<>> THEN <<>>
       ELSE Take(SortedSeq((SetMin(present)..SetMax(present)) \ present), gap_limit(es))

\* the decimal digits of m occur in the decimal digits of n (numbers below 100)
DigitsContain(n, m) ==
    \/ n = m
    \/ m < 10 /\ n >= 10 /\ (n % 10 = m \/ n \div 10 = m)

\* the three patterns of one probe, over the regex-visible anchors of the container
PatZhang(a, m) == RegexVisible(a) /\ a.text.kind = "chap" /\ a.text.n = m
PatZhang2(a, m) == RegexVisible(a) /\ a.text.kind = "zhang" /\ a.text.n = m
PatBare(a, m) == RegexVisible(a) /\ a.text.kind \in {"chap", "zhang", "typo", "bare"} /\ DigitsContain(a.text.n, m)

\* re.search over the patterns in order: <<>> when none matches, else the first
\* match of the first pattern that matches
ProbeMatch(items, m) ==
    LET m1 == SelectSeq(items, LAMBDA a : PatZhang(a, m))
        m2 == SelectSeq(items, LAMBDA a : PatZhang2(a, m))
        m3 == SelectSeq(items, LAMBDA a : PatBare(a, m))
    IN IF m1 # <<>> THEN <<Head(m1)>>
       ELSE IF m2 # <<>> THEN <<Head(m2)>>
       ELSE IF m3 # <<>> THEN <<Head(m3)>>
       ELSE <<>>

\* the loop over missing, in order; a list of several numbers is walked as its
\* first half and then, from the entries that half leaves (it only appends),
\* its second half
RECURSIVE GapScan(_, _, _, _)
GapScan(missing, es, items, cur) ==
    IF missing = <<>> THEN es
    ELSE IF Len(missing) = 1
    THEN LET hit == ProbeMatch(items, Head(missing))
         IN IF hit # <<>> /\ abs_url(cur, hit[1].href) \notin {e.url : e \in Range(es)}
            THEN Append(es, Entry(normalize_title(clean_text(hit[1].text)), abs_url(cur, hit[1].href)))
            ELSE es
    ELSE LET half == Len(missing) \div 2
             before == GapScan(SubSeq(missing, 1, half), es, items, cur)
         IN IF Len(before) >= Len(es)
            THEN GapScan(SubSeq(missing, half + 1, Len(missing)), before, items, cur)
            ELSE before

gap_fill(es, cont, cur) ==
    IF cont = <<>> THEN es ELSE GapScan(gap_missing(es, cont), es, cont[1].items, cur)

\* the entries of the first page before pagination is looked at
first_page_entries(page, cur) ==
    LET cont == all_chapters_ul(page)
    IN gap_fill(supplement_entries_from_ul(primary_entries(page, cont, cur), cont, cur), cont, cur)

\* ------------------------------------------------------------ pagination
PageRef(idx, url) == [idx |-> idx, url |-> url]

option_pages(page, cur) ==
    LET opts == Options(page)
    IN Flatten([i \in 1..Len(opts) |->
          LET absu == abs_url(cur, opts[i])
          IN IF PaginationNum(absu) >= 2 THEN <<PageRef(PaginationNum(absu), absu)>> ELSE <<>>])

RECURSIVE InsertByIdx(_, _)
InsertByIdx(p, sorted) ==
    IF sorted = <<>> THEN <<p>>
    ELSE IF Head(sorted).idx <= p.idx THEN <<Head(sorted)>> \o InsertByIdx(p, Tail(sorted))
         ELSE <<p>> \o sorted

RECURSIVE SortByIdx(_)
SortByIdx(ps) == IF ps = <<>> THEN <<>> ELSE InsertByIdx(ps[Len(ps)], SortByIdx(SubSeq(ps, 1, Len(ps) - 1)))

\* mutant of the page plan: the option order is kept
pages_plan_unsorted(page, cur) == DedupFrom(<<PageRef(1, cur)>> \o option_pages(page, cur), {})

\* pages: page 1 and the option pages, without repeated urls, by page number
pages_plan(page, cur) == SortByIdx(DedupFrom(<<PageRef(1, cur)>> \o option_pages(page, cur), {}))

\* mutant: the option pages are never taken as a paged directory
has_paged_never(ps) == FALSE

has_paged(ps) == \E i \in 1..Len(ps) : ps[i].idx >= 2

\* collect_pagination_urls: the pagination-shaped links and options of a page
\* in the directory of the page, the page itself left out
collect_pagination_urls(page, cur) ==
    LET anchors == SelectSeq(AllAnchors(page), LAMBDA a : ~a.hidden)
        hrefs == {anchors[i].href : i \in 1..Len(anchors)} \cup Range(Options(page))
    IN {abs_url(cur, h) : h \in {x \in hrefs :
            /\ PaginationNum(abs_url(cur, x)) # 0
            /\ abs_url(cur, x).kind # "xpage"
            /\ abs_url(cur, x) # cur}}

\* ------------------------------------------------------------ _extract_entries_from_paged_html
IsIntroUl(u) == u.intro

extract_entries_from_paged_html(page, cur) ==
    LET target == FirstOf(SelectSeq(UlBlocks(page), IsIntroUl))
        fromTarget == IF target = <<>> THEN <<>> ELSE EntriesOf(target[1].items, cur)
        listDl == FirstOf(SelectSeq(DlBlocks(page), LAMBDA d : d.inList))
        fromDl == IF listDl = <<>> THEN <<>> ELSE EntriesOf(AllDd(listDl[1]), cur)
        uls == UlBlocks(page)
        fromUls == Flatten([i \in 1..Len(uls) |-> EntriesOf(uls[i].items, cur)])
    IN IF fromTarget # <<>> THEN fromTarget
       ELSE IF fromDl # <<>> THEN fromDl
       ELSE fromUls

\* ------------------------------------------------------------ the pages of the model
Ch(n) == A(Url("num", n), Title("chap", n))
PageLink(k) == A(Url("page", k), Title("plain", 0))

\* the chapter blocks of a first page
FirstBodies == {
    <<>>,
    \* a dl with a latest-chapters preview and a body group out of numeric order
    <<Dl(TRUE, <<Group("latest", <<Ch(3), Ch(2)>>),
                 Group("main", <<Ch(3), A(Url("word", 1), Title("plain", 0)), Ch(1),
                                 A(Url("numq", 3), Title("chap", 3)), Ch(2)>>)>>)>>,
    \* a dl with only the preview group
    <<Dl(FALSE, <<Group("latest", <<Ch(3), Ch(2), Ch(1)>>)>>)>>,
    \* a dl whose body group holds no chapter link, then a hinted ul.chapter
    <<Dl(FALSE, <<Group("main", <<A(Url("frag", 0), Title("noise", 0)), A(Url("nav", 1), Title("plain", 0))>>)>>),
      Ul("none", TRUE, TRUE, <<Ch(2), Ch(1), A(Url("numq", 2), Title("chap", 2)),
                               HiddenA(Url("num", 4), Title("typo", 4)), A(Url("num", 5), Title("noise", 0)),
                               A(Url("num", 6), Title("empty", 0))>>)>>,
    \* an identified container with a hole in the numbering
    <<Ul("none", FALSE, FALSE, <<Ch(9)>>),
      Ul("in2", FALSE, FALSE, <<Ch(1), Ch(2), Ch(3), Ch(5), Ch(6), A(Url("num", 5), Title("bare", 4)),
                                HiddenA(Url("num", 7), Title("blank", 0))>>)>>,
    \* no container: loose links and a short ul.chapter
    <<Loose(<<Ch(1), A(Url("nav", 2), Title("plain", 0)), A(Url("word", 2), Title("empty", 0)),
              A(Url("php", 1), Title("chap", 7)), A(Url("js", 0), Title("plain", 0))>>),
      Ul("self1", FALSE, FALSE, <<Ch(2), Ch(1)>>)>>,
    \* an unclassified dl under #list
    <<Dl(TRUE, <<Group("nodt", <<Ch(5)>>), Group("other", <<Ch(4), Ch(3), Ch(2), Ch(1), Ch(4)>>)>>)>>,
    \* an identified container without a chapter link, chapter links elsewhere
    <<Ul("self2", FALSE, FALSE, <<A(Url("nav", 1), Title("plain", 0)), A(Url("frag", 0), Title("noise", 0))>>),
      Ul("in1", TRUE, FALSE, <<Ch(1), Ch(2)>>),
      Loose(<<Ch(3)>>)>>,
    \* two dl: a dt matching both patterns, a preview group, a second body group
    <<Dl(FALSE, <<Group("both", <<Ch(1), A(Url("js", 0), Title("plain", 0)), Ch(2)>>), Group("latest", <<Ch(9)>>)>>),
      Dl(TRUE, <<Group("other", <<Ch(8)>>), Group("main", <<Ch(3)>>)>>)>>,
    \* two preview groups around an unclassified group
    <<Dl(FALSE, <<Group("latest", <<Ch(4), Ch(3)>>), Group("other", <<Ch(7)>>),
                  Group("latest", <<Ch(2), A(Url("num", 6), Title("noise", 0)), Ch(1)>>)>>)>>,
    \* no classified dt: a dl outside #list, then a dl inside #list
    <<Dl(FALSE, <<Group("other", <<Ch(1), Ch(2)>>)>>),
      Dl(TRUE, <<Group("nodt", <<Ch(3), Ch(4), Ch(5)>>)>>),
      Dl(TRUE, <<Group("other", <<Ch(6)>>)>>)>>,
    \* no classified dt and no #list: twenty dd links
    <<Dl(FALSE, <<Group("other", [i \in 1..20 |-> Ch(i)])>>)>>,
    \* no classified dt, four dd links inside #list: too few
    <<Dl(TRUE, <<Group("other", <<Ch(1), Ch(2), Ch(3), Ch(4)>>)>>), Loose(<<Ch(5)>>)>>
}

\* the page-picker and the pagination links of a first page
FirstNavs == {
    <<>>,
    <<Select(<<Url("frag", 0)>> \o [i \in 1..(MaxPage - 1) |-> Url("page", MaxPage + 1 - i)] \o <<Url("page", 2), Url("page", 1)>>)>>,
    <<Select(<<Url("plist", 2), Url("page", 2), Url("php", 1)>>)>>,
    <<Select(<<Url("page", 1), Url("page", 2)>>)>>,
    <<Loose([i \in 1..(MaxPage - 1) |-> PageLink(i + 1)] \o <<A(Url("xpage", 2), Title("plain", 0))>>)>>,
    <<Loose(<<PageLink(2), PageLink(MaxPage + 1)>>), Select(<<Url("page", 1)>>)>>
}

FirstPages == {b \o n : b \in FirstBodies, n \in FirstNavs}

\* the secondary directory pages index_<k>.html
SecBodies(k) == {
    <<Ul("none", FALSE, TRUE, <<Ch(10 + k), Ch(k), Ch(10 + k)>>)>>,
    <<Dl(TRUE, <<Group("other", <<Ch(20 + k), A(Url("frag", 0), Title("plain", 0)), Ch(10 + k)>>)>>)>>,
    <<>>
}

SecNavs(k) == {
    <<>>,
    <<Loose((IF k < MaxPage THEN <<PageLink(k + 1)>> ELSE <<>>) \o <<PageLink(2), PageLink(k)>>)>>
}

SecPages(k) == {b \o n : b \in SecBodies(k), n \in SecNavs(k)}

PageUrls == {Url("page", k) : k \in 2..MaxPage}

Webs == {w \in [PageUrls -> UNION {SecPages(k) : k \in 2..MaxPage}] : \A u \in PageUrls : w[u] \in SecPages(u.n)}

\* ------------------------------------------------------------ fetch_html: decoding
\* A response body is a sequence of byte groups:
\*   a    an ASCII character            r    CR LF
\*   u    a sequence only UTF-8 reads   g    a sequence only GB18030 reads
\*   b    a sequence both read, as different characters
\*   x    a byte neither reads          bom  the UTF-8 byte order mark
Tokens == {"a", "r", "u", "g", "b", "x", "bom"}

RECURSIVE SeqsUpTo(_, _)
SeqsUpTo(S, n) ==
    IF n = 0 THEN {<<>>}
    ELSE SeqsUpTo(S, n - 1) \cup {Append(q, t) : q \in {w \in SeqsUpTo(S, n - 1) : Len(w) = n - 1}, t \in S}

Bodies == SeqsUpTo(Tokens, MaxBody)

HeaderCharsets == {"", "utf-8", "gbk", "latin-1", "bogus"}
MetaCharsets == {"", "utf-8", "gb2312", "bogus"}

Responses == [ctype : HeaderCharsets, meta : MetaCharsets, raw : Bodies]

KnownCodecs == {"utf-8", "gbk", "gb2312", "gb18030", "latin-1"}

\* the character a codec reads from a byte group, "FAIL" when it cannot
DecodeTok(codec, tok) ==
    CASE tok = "a" -> "a"
      [] tok = "r" -> "CRLF"
      [] codec = "utf-8" ->
            (CASE tok = "u" -> "U" [] tok = "b" -> "Bu" [] tok = "bom" -> "BOM" [] OTHER -> "FAIL")
      [] codec \in {"gbk", "gb2312", "gb18030"} ->
            (CASE tok = "g" -> "G" [] tok = "b" -> "Bg" [] OTHER -> "FAIL")
      [] codec = "latin-1" ->
            (CASE tok = "u" -> "Lu" [] tok = "g" -> "Lg" [] tok = "b" -> "Lb" [] tok = "x" -> "Lx" [] OTHER -> "Lbom")
      [] OTHER -> "FAIL"

\* raw.decode(codec, errors="strict"): an unknown codec name raises LookupError
StrictOk(codec, raw) ==
    codec \in KnownCodecs /\ \A i \in 1..Len(raw) : DecodeTok(codec, raw[i]) # "FAIL"

StrictText(codec, raw) == [i \in 1..Len(raw) |-> DecodeTok(codec, raw[i])]

\* raw.decode("gb18030", errors="replace")
ReplaceText(raw) ==
    [i \in 1..Len(raw) |-> IF DecodeTok("gb18030", raw[i]) = "FAIL" THEN "REPL" ELSE DecodeTok("gb18030", raw[i])]

\* _normalize_html: a leading byte order mark is dropped, CR LF becomes LF
normalize_html(txt) ==
    LET t == IF txt # <<>> /\ Head(txt) = "BOM" THEN Tail(txt) ELSE txt
    IN [i \in 1..Len(t) |-> IF t[i] = "CRLF" THEN "LF" ELSE t[i]]

detect_charset(resp) == IF resp.ctype # "" THEN resp.ctype ELSE resp.meta

\* mutant: utf-8 is tried before the declared charset
candidates_utf8_first(enc) ==
    <<"utf-8">> \o (IF enc = "" THEN <<>> ELSE IF enc \in {"gbk", "gb2312"} THEN <<"gb18030">> ELSE <<enc>>) \o <<"gb18030">>

candidates(enc) ==
    (IF enc = "" THEN <<>> ELSE IF enc \in {"gbk", "gb2312"} THEN <<"gb18030">> ELSE <<enc>>) \o <<"utf-8", "gb18030">>

RECURSIVE FirstStrict(_, _)
FirstStrict(cands, raw) ==
    IF cands = <<>> THEN normalize_html(ReplaceText(raw))
    ELSE IF StrictOk(Head(cands), raw) THEN normalize_html(StrictText(Head(cands), raw))
    ELSE FirstStrict(Tail(cands), raw)

StrValue(text) == [kind |-> "str", text |-> text]
NoneValue == [kind |-> "None", text |-> <<>>]
Unset == [kind |-> "unset", text |-> <<>>]

\* lines 105-137: the text a successful response is turned into
decode_body(resp) ==
    IF resp.raw = <<>> THEN StrValue(<<>>)
    ELSE StrValue(FirstStrict(candidates(detect_charset(resp)), resp.raw))

\* time.sleep(0.3 * attempt), in tenths of a second
BACKOFF_TENTHS == 3

\* mutant: a constant pause
backoff_flat(attempt) == BACKOFF_TENTHS

backoff(attempt) == BACKOFF_TENTHS * attempt

NoResponse == [ctype |-> "", meta |-> "", raw |-> <<>>]

\* ------------------------------------------------------------ state
VARIABLES
    index_html,   \* the first page handed to the extractor
    web,          \* what each secondary directory url answers when its fetch succeeds
    flaky,        \* whether a fetch of an existing page may fail (transport failure)
    pc,           \* position of the extraction call
    path,         \* the branch the call took: "dl", "paged", "bfs"
    entries,      \* the local list entries
    pages,        \* the local list pages of the option-driven merge
    pi,           \* position of the loop over pages
    queue,        \* the breadth-first queue
    qi,           \* position of the loop over queue
    visited,      \* the breadth-first visited set
    fetched,      \* the urls passed to fetch_html, in call order
    failed,       \* the urls whose fetch_html call raised
    result,       \* the returned list
    run,          \* 1 in the first call on an input, 2 in a repeated call
    first,        \* the list the first call returned
    f_retries,    \* fetch_html: the argument retries
    f_attempt,    \* fetch_html: the attempts made so far
    f_pc,         \* fetch_html: "loop", "returned", "raised" ("idle": no call)
    f_log,        \* fetch_html: the attempts, each with its number and outcome
    f_sleeps,     \* fetch_html: the pauses taken, in tenths of a second
    f_resp,       \* fetch_html: the response of the successful attempt
    f_out,        \* fetch_html: the returned value
    f_err,        \* fetch_html: the attempt whose error was raised, 0 if none
    b_pc,         \* batch mode: "start", "loop", "done", "standard" ("idle": no call)
    b_links,      \* batch mode: chapter_links
    b_i,          \* batch mode: the links the loop has passed
    b_batch,      \* batch mode: batch_chapters
    b_all,        \* batch mode: all_chapters
    b_seen,       \* batch mode: seen_urls
    b_count,      \* batch mode: processed_count
    b_emitted,    \* batch mode: the chapter_batch_ready emissions
    b_stop,       \* batch mode: _should_stop
    c_html,       \* content extractor: the chapter page
    c_pc,         \* content extractor: "start", "scan", "returned" ("idle": no call)
    c_cands,      \* content extractor: candidates, as positions of the page's elements
    c_i,          \* content extractor: the candidates examined so far
    c_gone,       \* content extractor: the elements whose unwanted parts were decomposed
    c_title,      \* content extractor: the returned title
    c_content,    \* content extractor: the returned content
    c_paragraphs, \* content extractor: the returned paragraphs
    c_path,       \* content extractor: the return path taken
    n_in,         \* _chinese_numeral_to_int: the argument s
    n_means,      \* the integer the argument denotes as a standard numeral, 0 if none
    n_pc,         \* _chinese_numeral_to_int: "call", "done" ("idle": no call)
    n_out,        \* _chinese_numeral_to_int: the returned value, -1 for None
    r_prev,       \* index refresh: meta["chapter_index"] before the refresh
    r_len,        \* index refresh: the length of the refreshed chapter list
    r_pc,         \* index refresh: "finished", "done", "rejected" ("idle": none)
    r_idx,        \* index refresh: meta["chapter_index"]
    call_fn,      \* a call of one function on its own: the function ("idle": none)
    call_in,      \* its arguments
    call_pc,      \* "call", "done"
    call_out,     \* what it returned
    t_chapters,   \* reader: meta["chapters"], the url at each index
    t_cache,      \* reader: the file <index>.json of the book's chapters directory
    t_pos,        \* reader: meta["chapter_index"]
    t_pc,         \* ChapterFetchThread.run: its position ("idle": no reader)
    t_url,        \* ChapterFetchThread: chapter_url
    t_index,      \* ChapterFetchThread: index
    t_err,        \* ChapterFetchThread.run: the exception caught by the outer handler
    t_emitted,    \* ChapterFetchThread.run: the emissions of finished, in order
    t_requests    \* ChapterFetchThread.run: the urls passed to fetch_html

fetchVars == <<f_retries, f_attempt, f_pc, f_log, f_sleeps, f_resp, f_out, f_err>>

exVars == <<pc, path, entries, pages, pi, queue, qi, visited, fetched, failed, result>>

batchVars == <<b_pc, b_links, b_i, b_batch, b_all, b_seen, b_count, b_emitted, b_stop>>

contentVars == <<c_html, c_pc, c_cands, c_i, c_gone, c_title, c_content, c_paragraphs, c_path>>

\* the variables of the other functions of the repository
numeralVars == <<n_in, n_means, n_pc, n_out>>

refreshVars == <<r_prev, r_len, r_pc, r_idx>>

callVars == <<call_fn, call_in, call_pc, call_out>>

chapterVars == <<t_chapters, t_cache, t_pos, t_pc, t_url, t_index, t_err, t_emitted, t_requests>>

moreVars == <<contentVars, numeralVars, refreshVars, callVars, chapterVars>>

vars == <<index_html, web, flaky, exVars, run, first, fetchVars, batchVars, moreVars>>

\* the variables no step of an extraction call writes
others == <<index_html, web, flaky, run, first, fetchVars, batchVars, moreVars>>

\* no call of the content extractor is modelled
ContentIdle ==
    /\ c_html = <<>>
    /\ c_pc = "idle"
    /\ c_cands = <<>>
    /\ c_i = 0
    /\ c_gone = {}
    /\ c_title = ""
    /\ c_content = <<>>
    /\ c_paragraphs = <<>>
    /\ c_path = "none"

\* no call of _chinese_numeral_to_int is modelled
NumeralIdle ==
    /\ n_in = <<>>
    /\ n_means = 0
    /\ n_pc = "idle"
    /\ n_out = -1

\* no index refresh is modelled
RefreshIdle ==
    /\ r_prev = 0
    /\ r_len = 0
    /\ r_pc = "idle"
    /\ r_idx = 0

\* no call of a single function is modelled
CallIdle ==
    /\ call_fn = "idle"
    /\ call_in = <<>>
    /\ call_pc = "idle"
    /\ call_out = <<>>

\* no chapter load of the reader is modelled
ChapterIdle ==
    /\ t_chapters = <<>>
    /\ t_cache = <<>>
    /\ t_pos = 0
    /\ t_pc = "idle"
    /\ t_url = <<>>
    /\ t_index = 0
    /\ t_err = ""
    /\ t_emitted = <<>>
    /\ t_requests = <<>>

MoreIdle == ContentIdle /\ NumeralIdle /\ RefreshIdle /\ CallIdle /\ ChapterIdle

\* no call of the batch mode is modelled
BatchIdle ==
    /\ b_pc = "idle"
    /\ b_links = <<>>
    /\ b_i = 0
    /\ b_batch = <<>>
    /\ b_all = <<>>
    /\ b_seen = {}
    /\ b_count = 0
    /\ b_emitted = <<>>
    /\ b_stop = FALSE

\* no call of fetch_html is modelled
FetchIdle ==
    /\ f_retries = 0
    /\ f_attempt = 0
    /\ f_pc = "idle"
    /\ f_log = <<>>
    /\ f_sleeps = <<>>
    /\ f_resp = NoResponse
    /\ f_out = Unset
    /\ f_err = 0

\* mutant: the except clauses are missing and the error leaves the call
on_page_fetch_error_raise == "raise"

\* what the except clauses around a secondary page do with a raised fetch
on_page_fetch_error == "continue"

\* mutant: the dl layout is never taken
dl_entries_skipped(page) == <<>>

dl_entries(page) ==
    IF DlBlocks(page) = <<>> THEN <<>> ELSE extract_from_dl_structure(DlBlocks(page), base_url)

ExtractInit ==
    /\ pc = "start"
    /\ path = "none"
    /\ entries = <<>>
    /\ pages = <<>>
    /\ pi = 0
    /\ queue = <<>>
    /\ qi = 0
    /\ visited = {}
    /\ fetched = <<>>
    /\ failed = {}
    /\ result = <<>>

Init ==
    /\ index_html \in FirstPages
    /\ web \in Webs
    /\ flaky = TRUE
    /\ ExtractInit
    /\ run = 1
    /\ first = <<>>
    /\ FetchIdle
    /\ BatchIdle
    /\ MoreIdle

\* lines 354-360: the dl layout yields entries and the call returns
StartDl ==
    /\ pc = "start"
    /\ dl_entries(index_html) # <<>>
    /\ entries' = dl_entries(index_html)
    /\ result' = finalize_entries(dl_entries(index_html))
    /\ path' = "dl"
    /\ pc' = "done"
    /\ UNCHANGED <<others, pages, pi, queue, qi, visited, fetched, failed>>

\* lines 362-528: container, supplement, gap filling; the options name a page >= 2
StartPaged ==
    /\ pc = "start"
    /\ dl_entries(index_html) = <<>>
    /\ has_paged(pages_plan(index_html, base_url))
    /\ entries' = <<>>
    /\ pages' = pages_plan(index_html, base_url)
    /\ pi' = 1
    /\ path' = "paged"
    /\ pc' = "paged"
    /\ UNCHANGED <<others, queue, qi, visited, fetched, failed, result>>

\* lines 362-574: no option page; the breadth-first queue is seeded from a set
StartBfs ==
    /\ pc = "start"
    /\ dl_entries(index_html) = <<>>
    /\ ~has_paged(pages_plan(index_html, base_url))
    /\ entries' = first_page_entries(index_html, base_url)
    /\ pages' = pages_plan(index_html, base_url)
    /\ \E q \in Orders(collect_pagination_urls(index_html, base_url)) : queue' = q
    /\ visited' = {base_url} \cup collect_pagination_urls(index_html, base_url)
    /\ qi' = 1
    /\ path' = "bfs"
    /\ pc' = "bfs"
    /\ UNCHANGED <<others, pi, fetched, failed, result>>

\* lines 529-534, idx == 1: page 1 is read from the html already supplied
PagedFirst ==
    /\ pc = "paged"
    /\ pi <= Len(pages)
    /\ pages[pi].idx = 1
    /\ entries' = entries \o extract_entries_from_paged_html(index_html, pages[pi].url)
    /\ pi' = pi + 1
    /\ UNCHANGED <<others, pc, path, pages, queue, qi, visited, fetched, failed, result>>

\* lines 529-534, idx >= 2: the page is fetched and its entries are appended
PagedFetchOk ==
    /\ pc = "paged"
    /\ pi <= Len(pages)
    /\ pages[pi].idx # 1
    /\ pages[pi].url \in DOMAIN web
    /\ fetched' = Append(fetched, pages[pi].url)
    /\ entries' = entries \o extract_entries_from_paged_html(web[pages[pi].url], pages[pi].url)
    /\ pi' = pi + 1
    /\ UNCHANGED <<others, pc, path, pages, queue, qi, visited, failed, result>>

\* lines 535-536: fetch_html raised (retries exhausted, or no such page)
PagedFetchFail ==
    /\ pc = "paged"
    /\ pi <= Len(pages)
    /\ pages[pi].idx # 1
    /\ flaky \/ pages[pi].url \notin DOMAIN web
    /\ fetched' = Append(fetched, pages[pi].url)
    /\ failed' = failed \cup {pages[pi].url}
    /\ pi' = pi + 1
    /\ pc' = IF on_page_fetch_error = "continue" THEN pc ELSE "raised"
    /\ UNCHANGED <<others, path, entries, pages, queue, qi, visited, result>>

\* line 596 after the loop over pages
PagedEnd ==
    /\ pc = "paged"
    /\ pi > Len(pages)
    /\ result' = finalize_entries(entries)
    /\ pc' = "done"
    /\ UNCHANGED <<others, path, entries, pages, pi, queue, qi, visited, fetched, failed>>

\* lines 577-590: the next queued page is fetched, merged and scanned for links
BfsFetchOk ==
    /\ pc = "bfs"
    /\ qi <= Len(queue)
    /\ queue[qi] \in DOMAIN web
    /\ fetched' = Append(fetched, queue[qi])
    /\ entries' = entries \o extract_entries_from_paged_html(web[queue[qi]], queue[qi])
    /\ LET more == collect_pagination_urls(web[queue[qi]], queue[qi])
       IN /\ visited' = visited \cup more
          /\ \E q \in Orders(more \ visited) : queue' = queue \o q
    /\ qi' = qi + 1
    /\ UNCHANGED <<others, pc, path, pages, pi, failed, result>>

\* mutant: a page whose fetch raised is queued once more
BfsFetchFail_requeue ==
    /\ pc = "bfs"
    /\ qi <= Len(queue)
    /\ flaky \/ queue[qi] \notin DOMAIN web
    /\ fetched' = Append(fetched, queue[qi])
    /\ failed' = failed \cup {queue[qi]}
    /\ queue' = IF queue[qi] \in failed THEN queue ELSE Append(queue, queue[qi])
    /\ qi' = qi + 1
    /\ UNCHANGED <<others, pc, path, entries, pages, pi, visited, result>>

\* lines 591-592: fetch_html raised
BfsFetchFail ==
    /\ pc = "bfs"
    /\ qi <= Len(queue)
    /\ flaky \/ queue[qi] \notin DOMAIN web
    /\ fetched' = Append(fetched, queue[qi])
    /\ failed' = failed \cup {queue[qi]}
    /\ qi' = qi + 1
    /\ pc' = IF on_page_fetch_error = "continue" THEN pc ELSE "raised"
    /\ UNCHANGED <<others, path, entries, pages, pi, queue, visited, result>>

\* line 596 after the queue is exhausted
BfsEnd ==
    /\ pc = "bfs"
    /\ qi > Len(queue)
    /\ result' = finalize_entries(entries)
    /\ pc' = "done"
    /\ UNCHANGED <<others, path, entries, pages, pi, queue, qi, visited, fetched, failed>>

Next ==
    \/ StartDl
    \/ StartPaged
    \/ StartBfs
    \/ PagedFirst
    \/ PagedFetchOk
    \/ PagedFetchFail
    \/ PagedEnd
    \/ BfsFetchOk
    \/ BfsFetchFail
    \/ BfsEnd

Spec == Init /\ [][Next]_vars

\* ------------------------------------------------------------ a repeated call
\* the same input is handed to the extractor a second time; every url answers
\* as it did before (flaky = FALSE: a page that exists is always served)
InitDet ==
    /\ index_html \in FirstPages
    /\ web \in Webs
    /\ flaky = FALSE
    /\ ExtractInit
    /\ run = 1
    /\ first = <<>>
    /\ FetchIdle
    /\ BatchIdle
    /\ MoreIdle

Rerun ==
    /\ pc = "done"
    /\ run = 1
    /\ run' = 2
    /\ first' = result
    /\ pc' = "start"
    /\ path' = "none"
    /\ entries' = <<>>
    /\ pages' = <<>>
    /\ pi' = 0
    /\ queue' = <<>>
    /\ qi' = 0
    /\ visited' = {}
    /\ fetched' = <<>>
    /\ failed' = {}
    /\ result' = <<>>
    /\ UNCHANGED <<index_html, web, flaky, fetchVars, batchVars, moreVars>>

NextDet ==
    \/ Next
    \/ Rerun

SpecDet == InitDet /\ [][NextDet]_vars

\* ------------------------------------------------------------ fetch_html: the retry loop
\* no extraction call is modelled
ExtractIdle ==
    /\ index_html = <<>>
    /\ web = <<>>
    /\ flaky = FALSE
    /\ pc = "idle"
    /\ path = "none"
    /\ entries = <<>>
    /\ pages = <<>>
    /\ pi = 0
    /\ queue = <<>>
    /\ qi = 0
    /\ visited = {}
    /\ fetched = <<>>
    /\ failed = {}
    /\ result = <<>>
    /\ run = 1
    /\ first = <<>>

InitFetch ==
    /\ ExtractIdle
    /\ BatchIdle
    /\ MoreIdle
    /\ f_retries \in -1..MaxRetries
    /\ f_attempt = 0
    /\ f_pc = "loop"
    /\ f_log = <<>>
    /\ f_sleeps = <<>>
    /\ f_resp = NoResponse
    /\ f_out = Unset
    /\ f_err = 0

LogEntry(n, ok) == [n |-> n, ok |-> ok]

\* lines 103-137: the request succeeds and the decoded text is returned
FetchAttemptOk ==
    /\ f_pc = "loop"
    /\ f_attempt < f_retries
    /\ \E resp \in Responses :
          /\ f_resp' = resp
          /\ f_out' = decode_body(resp)
    /\ f_attempt' = f_attempt + 1
    /\ f_log' = Append(f_log, LogEntry(f_attempt + 1, TRUE))
    /\ f_pc' = "returned"
    /\ UNCHANGED <<index_html, web, flaky, exVars, run, first, batchVars, moreVars, f_retries, f_sleeps, f_err>>

\* lines 138-141: the request raises; the last attempt re-raises, the others pause
FetchAttemptFail ==
    /\ f_pc = "loop"
    /\ f_attempt < f_retries
    /\ f_attempt' = f_attempt + 1
    /\ f_log' = Append(f_log, LogEntry(f_attempt + 1, FALSE))
    /\ IF f_attempt + 1 = f_retries
       THEN /\ f_pc' = "raised"
            /\ f_err' = f_attempt + 1
            /\ UNCHANGED f_sleeps
       ELSE /\ f_sleeps' = Append(f_sleeps, backoff(f_attempt + 1))
            /\ UNCHANGED <<f_pc, f_err>>
    /\ UNCHANGED <<index_html, web, flaky, exVars, run, first, batchVars, moreVars, f_retries, f_resp, f_out>>

\* line 101 with an empty range: the function body ends and None is returned
FetchLoopExit ==
    /\ f_pc = "loop"
    /\ f_attempt >= f_retries
    /\ f_pc' = "returned"
    /\ f_out' = NoneValue
    /\ UNCHANGED <<index_html, web, flaky, exVars, run, first, batchVars, moreVars, f_retries, f_attempt, f_log, f_sleeps, f_resp, f_err>>

NextFetch ==
    \/ FetchAttemptOk
    \/ FetchAttemptFail
    \/ FetchLoopExit

SpecFetch == InitFetch /\ [][NextFetch]_vars

\* ------------------------------------------------------------ the batch mode of IndexFetchThread
\* _estimate_chapter_count: the href="....html" attributes of the raw text,
\* anchors inside comments included
EndsHtml(href) == href.kind \in {"num", "word", "nav", "page", "plist", "xpage"}

estimate_chapter_count(page) == Len(SelectSeq(AllAnchors(page), LAMBDA a : EndsHtml(a.href)))

Visible(anchors) == SelectSeq(anchors, LAMBDA a : ~a.hidden)

HasLinks(b) == Visible(BlockAnchors(b)) # <<>>

InListDl(b) == IsDl(b) /\ b.inList

HasIdAll2(b) == IsUl(b) /\ b.id \in {"self2", "in2"}

HasIdAll1(b) == IsUl(b) /\ b.id \in {"self1", "in1"}

\* the anchors of the container _find_chapter_container returns: the first
\* "#list dl", the element of id allChapters2, of id allChapters, the first
\* ul.chapter, each only if it holds an anchor; else the whole document
find_chapter_container(page) ==
    LET dl == FirstOf(SelectSeq(page, InListDl))
        id2 == FirstOf(SelectSeq(page, HasIdAll2))
        id1 == FirstOf(SelectSeq(page, HasIdAll1))
        ul == FirstOf(UlBlocks(page))
    IN IF dl # <<>> /\ HasLinks(dl[1]) THEN Visible(BlockAnchors(dl[1]))
       ELSE IF id2 # <<>> /\ HasLinks(id2[1]) THEN Visible(BlockAnchors(id2[1]))
       ELSE IF id1 # <<>> /\ HasLinks(id1[1]) THEN Visible(BlockAnchors(id1[1]))
       ELSE IF ul # <<>> /\ HasLinks(ul[1]) THEN Visible(BlockAnchors(ul[1]))
       ELSE Visible(AllAnchors(page))

is_valid_chapter_url(u) == is_chapter_href(u) /\ ~is_nav_path(u)

clean_title(t) == normalize_title(clean_text(t))

\* the chapter object of lines 1135-1139: no chapter_num key
BatchRecord(i, t, u) == [index |-> i, title |-> t, url |-> u]

Emission(batch, count, total) == [batch |-> batch, count |-> count, total |-> total]

InitBatch ==
    /\ index_html \in FirstPages
    /\ web \in Webs
    /\ flaky = FALSE
    /\ ExtractInit
    /\ run = 1
    /\ first = <<>>
    /\ FetchIdle
    /\ MoreIdle
    /\ b_pc = "start"
    /\ b_links = <<>>
    /\ b_i = 0
    /\ b_batch = <<>>
    /\ b_all = <<>>
    /\ b_seen = {}
    /\ b_count = 0
    /\ b_emitted = <<>>
    /\ b_stop = FALSE

exAll == <<index_html, web, flaky, exVars, run, first, fetchVars, moreVars>>

\* lines 1062-1068: the estimate does not exceed the threshold, the standard
\* extractor is called
BatchStandard ==
    /\ b_pc = "start"
    /\ estimate_chapter_count(index_html) <= EstimateMin
    /\ b_pc' = "standard"
    /\ UNCHANGED <<exAll, b_links, b_i, b_batch, b_all, b_seen, b_count, b_emitted, b_stop>>

\* lines 1062-1065, 1092-1108: the batch mode is entered
BatchStart ==
    /\ b_pc = "start"
    /\ estimate_chapter_count(index_html) > EstimateMin
    /\ b_links' = find_chapter_container(index_html)
    /\ b_pc' = "loop"
    /\ UNCHANGED <<exAll, b_i, b_batch, b_all, b_seen, b_count, b_emitted, b_stop>>

\* stop() is called from another thread
BatchStop ==
    /\ b_pc \in {"start", "loop"}
    /\ ~b_stop
    /\ b_stop' = TRUE
    /\ UNCHANGED <<exAll, b_pc, b_links, b_i, b_batch, b_all, b_seen, b_count, b_emitted>>

\* lines 1111-1112, 1168: the loop breaks on _should_stop
BatchBreak ==
    /\ b_pc = "loop"
    /\ b_stop
    /\ b_pc' = "done"
    /\ UNCHANGED <<exAll, b_links, b_i, b_batch, b_all, b_seen, b_count, b_emitted, b_stop>>

\* lines 1115-1128: a link that is no chapter link or repeats a url is passed over
BatchSkipLink ==
    /\ b_pc = "loop"
    /\ ~b_stop
    /\ b_i < Len(b_links)
    /\ LET full_url == abs_url(base_url, b_links[b_i + 1].href)
       IN ~is_valid_chapter_url(full_url) \/ full_url \in b_seen
    /\ b_i' = b_i + 1
    /\ UNCHANGED <<exAll, b_pc, b_links, b_batch, b_all, b_seen, b_count, b_emitted, b_stop>>

\* lines 1129-1157: a link is taken; the batch is handed over when it is full
\* or the link is the last of chapter_links
BatchTakeLink ==
    /\ b_pc = "loop"
    /\ ~b_stop
    /\ b_i < Len(b_links)
    /\ LET full_url == abs_url(base_url, b_links[b_i + 1].href)
           chapter == BatchRecord(b_count + 1, clean_title(b_links[b_i + 1].text), full_url)
           batch == Append(b_batch, chapter)
       IN /\ is_valid_chapter_url(full_url)
          /\ full_url \notin b_seen
          /\ b_seen' = b_seen \cup {full_url}
          /\ b_count' = b_count + 1
          /\ IF Len(batch) >= BatchSize \/ b_i + 1 = Len(b_links)
             THEN /\ b_emitted' = Append(b_emitted, Emission(batch, b_count + 1, Len(b_links)))
                  /\ b_all' = b_all \o batch
                  /\ b_batch' = <<>>
             ELSE /\ b_batch' = batch
                  /\ UNCHANGED <<b_emitted, b_all>>
    /\ b_i' = b_i + 1
    /\ UNCHANGED <<exAll, b_pc, b_links, b_stop>>

\* lines 1167-1168: the links are exhausted, all_chapters is returned
BatchReturn ==
    /\ b_pc = "loop"
    /\ ~b_stop
    /\ b_i = Len(b_links)
    /\ b_pc' = "done"
    /\ UNCHANGED <<exAll, b_links, b_i, b_batch, b_all, b_seen, b_count, b_emitted, b_stop>>

\* the standard extractor on the same arguments, after the batch mode returned
\* or in its place
ExtractAfterBatch ==
    /\ b_pc \in {"done", "standard"}
    /\ ~b_stop
    /\ Next

NextBatch ==
    \/ BatchStandard
    \/ BatchStart
    \/ BatchStop
    \/ BatchBreak
    \/ BatchSkipLink
    \/ BatchTakeLink
    \/ BatchReturn
    \/ ExtractAfterBatch

SpecBatch == InitBatch /\ [][NextBatch]_vars

\* ------------------------------------------------------------ claims on the chapter list
Urls(s) == [i \in 1..Len(s) |-> s[i].url]

\* the position of the first element of s with url u
FirstPos(s, u) == SetMin({i \in 1..Len(s) : s[i].url = u})

HasRepeat(s) == \E i, j \in 1..Len(s) : i < j /\ s[i].url = s[j].url

\* the elements of s that no earlier element shares its url with, in order
KeepFirst(s) ==
    LET keep == SortedSeq({i \in 1..Len(s) : \A j \in 1..(i - 1) : s[j].url # s[i].url})
    IN [k \in 1..Len(keep) |-> s[keep[k]]]

\* C1: the urls of the returned list are pairwise distinct
C1_DistinctUrls ==
    pc = "done" => \A i, j \in 1..Len(result) : result[i].url = result[j].url => i = j

\* a merge of several pages that collected a url more than once has returned
C1_Witness ==
    /\ pc = "done"
    /\ path = "paged"
    /\ Len(fetched) >= 2
    /\ HasRepeat(entries)
    /\ Len(result) >= 2

\* C2: the k-th entry of the returned list has index k, so the indices are 1..N
C2_IndexContiguity ==
    pc = "done" => \A k \in 1..Len(result) : result[k].index = k

\* a list with a repeated url before its end has been finalized
C2_Witness ==
    /\ pc = "done"
    /\ path = "dl"
    /\ \E i, j \in 1..Len(entries) : i < j /\ j < Len(entries) /\ entries[i].url = entries[j].url
    /\ Len(result) >= 3

\* the accepted dd anchors of the body groups of the first page, in document order
BodyAnchors(page) ==
    LET dls == DlBlocks(page)
        dds == Flatten([d \in 1..Len(dls) |->
                  Flatten([g \in 1..Len(dls[d].groups) |->
                      IF dls[d].groups[g].dt \in {"main", "both"} THEN dls[d].groups[g].dds ELSE <<>>])])
    IN SelectSeq(dds, LAMBDA a : entry_from_anchor(a, base_url) # <<>>)

BodyUrls(page) == [i \in 1..Len(BodyAnchors(page)) |-> [url |-> abs_url(base_url, BodyAnchors(page)[i].href)]]

\* C3: the returned list keeps the first occurrence of each collected url in
\* encounter order; for a dl with a body group that is the document order of its
\* dd anchors, whatever the chapter numbers
C3_OrderFidelity ==
    pc = "done" =>
        /\ Range(Urls(result)) = Range(Urls(entries))
        /\ \A i, j \in 1..Len(result) :
              i < j => FirstPos(entries, result[i].url) < FirstPos(entries, result[j].url)
        /\ (path = "dl" /\ BodyAnchors(index_html) # <<>>) =>
              /\ Range(Urls(result)) = Range(Urls(BodyUrls(index_html)))
              /\ \A i, j \in 1..Len(result) :
                    i < j => FirstPos(BodyUrls(index_html), result[i].url) < FirstPos(BodyUrls(index_html), result[j].url)

\* a dl body group whose numbers fall and are partly missing has been returned
C3_Witness ==
    /\ pc = "done"
    /\ path = "dl"
    /\ BodyAnchors(index_html) # <<>>
    /\ \E i, j \in 1..Len(result) : i < j /\ result[i].chapter_num > result[j].chapter_num /\ result[j].chapter_num > 0
    /\ \E k \in 1..Len(result) : result[k].chapter_num = 0

\* C5: no error leaves the call: after a failed fetch the call is still in its
\* loop or has returned, and what it returns is a list
C5_NeverRaises ==
    /\ pc # "raised"
    /\ failed # {} => pc \in {"paged", "bfs", "done"}
    /\ pc = "done" => DOMAIN result = 1..Len(result)

\* every secondary fetch failed and the call returned the empty list
C5_Witness ==
    /\ pc = "done"
    /\ Len(fetched) >= 2
    /\ Range(fetched) = failed
    /\ result = <<>>

\* C6: a call in which a fetch failed does not return a list
C6_FailurePropagates ==
    pc = "done" => failed = {}

\* what a directory url answers, the empty document for a url that has no page
PageHtml(p) ==
    IF p.idx = 1 THEN index_html
    ELSE IF p.url \in DOMAIN web THEN web[p.url] ELSE <<>>

\* the urls of the pages >= 2 the options of the first page name
OptionUrls(page) ==
    {abs_url(base_url, o) : o \in {x \in Range(Options(page)) : PaginationNum(abs_url(base_url, x)) >= 2}}

\* C9 as stated: whenever the options name a page >= 2 the result is the merge
\* of all the pages in page order
C9_AsStated ==
    (pc = "done" /\ OptionUrls(index_html) # {}) =>
        LET plan == pages_plan(index_html, base_url)
        IN Urls(result) = Urls(KeepFirst(Flatten([i \in 1..Len(plan) |->
                              extract_entries_from_paged_html(PageHtml(plan[i]), plan[i].url)])))

\* the entries of the page p as the merge saw them: none when its fetch failed
Obtained(p) ==
    IF p.url \in failed THEN <<>> ELSE extract_entries_from_paged_html(PageHtml(p), p.url)

\* C9 amended: when the dl layout did not return first and the options name a
\* page >= 2, the pages are page 1 and the option pages, each once, in ascending
\* page number, and the result is the concatenation of the entries of the pages
\* that were obtained, in that order, without the later repeats of a url; when
\* every page was obtained and no url repeats, a first page of m entries and a
\* second page of n entries give m + n entries
C9_PagedMerge ==
    (pc = "done" /\ OptionUrls(index_html) # {} /\ path # "dl") =>
        /\ path = "paged"
        /\ pages[1] = PageRef(1, base_url)
        /\ {pages[i].url : i \in 1..Len(pages)} = {base_url} \cup OptionUrls(index_html)
        /\ \A i, j \in 1..Len(pages) : i < j => pages[i].idx <= pages[j].idx /\ pages[i].url # pages[j].url
        /\ Range(fetched) = OptionUrls(index_html)
        /\ Urls(result) = Urls(KeepFirst(Flatten([i \in 1..Len(pages) |-> Obtained(pages[i])])))
        /\ (Len(pages) = 2 /\ failed = {} /\ ~HasRepeat(Obtained(pages[1]) \o Obtained(pages[2]))) =>
              /\ Len(result) = Len(Obtained(pages[1])) + Len(Obtained(pages[2]))
              /\ \A k \in 1..Len(Obtained(pages[1])) : result[k].url = Obtained(pages[1])[k].url

\* a first page and a fetched second page, both with entries and no url shared
C9_Witness ==
    /\ pc = "done"
    /\ path = "paged"
    /\ Len(pages) = 2
    /\ failed = {}
    /\ Len(Obtained(pages[1])) >= 2
    /\ Len(Obtained(pages[2])) >= 2
    /\ ~HasRepeat(Obtained(pages[1]) \o Obtained(pages[2]))
    /\ Len(result) = Len(Obtained(pages[1])) + Len(Obtained(pages[2]))

\* C4: a second call on the same input, with the same answers, returns the
\* list the first call returned
C4_Deterministic ==
    (pc = "done" /\ run = 2) => result = first

\* ------------------------------------------------------------ claims on fetch_html
Failures(log) == Len(SelectSeq(log, LAMBDA e : ~e.ok))

MinOf(a, b) == IF a < b THEN a ELSE b

\* C7: with retries >= 1 the attempts are numbered 1, 2, ... and never exceed
\* retries; a success is the last attempt and its text is returned; the pause
\* after failed attempt k < retries is 0.3 * k seconds; the error of attempt
\* number retries is raised when all fail
C7_RetryLoop ==
    f_retries >= 1 =>
        /\ Len(f_log) <= f_retries
        /\ \A k \in 1..Len(f_log) : f_log[k].n = k
        /\ \A k \in 1..(Len(f_log) - 1) : ~f_log[k].ok
        /\ f_sleeps = [k \in 1..MinOf(Failures(f_log), f_retries - 1) |-> 3 * k]
        /\ f_pc = "returned" <=> (f_log # <<>> /\ f_log[Len(f_log)].ok)
        /\ f_pc = "returned" => f_out.kind = "str"
        /\ f_pc = "raised" <=> (Len(f_log) = f_retries /\ Failures(f_log) = f_retries)
        /\ f_pc = "raised" => f_err = f_retries
        /\ f_pc = "loop" => Len(f_log) < f_retries

\* the third attempt succeeded after two failed ones
C7_Witness ==
    /\ f_pc = "returned"
    /\ f_retries >= 3
    /\ Len(f_log) = 3
    /\ f_sleeps = <<3, 6>>
    /\ f_out.kind = "str"

Declared(resp) ==
    LET enc == IF resp.ctype # "" THEN resp.ctype ELSE resp.meta
    IN IF enc \in {"gbk", "gb2312"} THEN "gb18030" ELSE enc

\* C8: a successful response always yields text: the strict decoding by the
\* declared charset (header before meta, gbk and gb2312 read as gb18030) when
\* that succeeds, else by utf-8 when that succeeds, else by gb18030 when that
\* succeeds, else gb18030 with replacement characters
C8_CodecChain ==
    (f_log # <<>> /\ f_log[Len(f_log)].ok /\ f_resp.raw # <<>>) =>
        LET raw == f_resp.raw
            dec == Declared(f_resp)
            decOk == dec # "" /\ StrictOk(dec, raw)
        IN /\ f_pc = "returned"
           /\ f_out.kind = "str"
           /\ decOk => f_out.text = normalize_html(StrictText(dec, raw))
           /\ (~decOk /\ StrictOk("utf-8", raw)) => f_out.text = normalize_html(StrictText("utf-8", raw))
           /\ (~decOk /\ ~StrictOk("utf-8", raw) /\ StrictOk("gb18030", raw)) =>
                 /\ f_out.text = normalize_html(StrictText("gb18030", raw))
                 /\ "REPL" \notin Range(f_out.text)
           /\ (~decOk /\ ~StrictOk("utf-8", raw) /\ ~StrictOk("gb18030", raw)) =>
                 /\ Len(f_out.text) = Len(raw)
                 /\ "REPL" \in Range(f_out.text)
                 /\ \A i \in 1..Len(raw) : f_out.text[i] = "REPL" <=> raw[i] \in {"u", "x", "bom"}

\* a GB18030 body with no declared charset came back without replacement characters
C8_Witness ==
    /\ f_pc = "returned"
    /\ f_resp.ctype = ""
    /\ f_resp.meta = ""
    /\ "g" \in Range(f_resp.raw)
    /\ f_out.kind = "str"
    /\ Len(f_out.text) = Len(f_resp.raw)
    /\ "REPL" \notin Range(f_out.text)

\* ------------------------------------------------------------ claims on the batch mode
\* C10: when the batch mode has returned without being stopped, its list is the
\* list of the standard extractor on the same arguments: same length, and at
\* each position the same keys, index, title and url
C10_Equivalent ==
    (b_pc = "done" /\ ~b_stop /\ pc = "done") =>
        /\ Len(b_all) = Len(result)
        /\ \A i \in 1..Len(b_all) :
              /\ DOMAIN b_all[i] = DOMAIN result[i]
              /\ b_all[i].index = result[i].index
              /\ b_all[i].title = result[i].title
              /\ b_all[i].url = result[i].url

\* the same comparison with the chapter_num key left aside: the urls in order
C10_SameUrls ==
    (b_pc = "done" /\ ~b_stop /\ pc = "done") =>
        [i \in 1..Len(b_all) |-> b_all[i].url] = [i \in 1..Len(result) |-> result[i].url]

\* ------------------------------------------------------------ claims on acceptance and titles
\* C11: every entry of a returned list passes the acceptance conditions of
\* _entry_from_anchor: its url ends in .html, its path is no navigation path,
\* its title is no noise title
C11_AllAccepted ==
    pc = "done" =>
        \A i \in 1..Len(result) :
            /\ is_chapter_href(result[i].url)
            /\ ~is_nav_path(result[i].url)
            /\ ~is_noise_title(result[i].title)

\* the entries handed to _finalize_entries, after its de-duplication
Cleaned == KeepFirst(entries)

NonEmptyTitle(t) == t.kind \notin {"none", "empty", "blank"}

\* C12: every returned entry has a non-empty title: an entry collected without
\* a title is titled by its chapter number when one was resolved and by its
\* 1-based position otherwise, an entry collected with a title keeps it
C12_TitlesFilled ==
    pc = "done" =>
        /\ Len(result) = Len(Cleaned)
        /\ \A i \in 1..Len(result) :
              /\ NonEmptyTitle(result[i].title)
              /\ NonEmptyTitle(Cleaned[i].title) => result[i].title = Cleaned[i].title
              /\ (~NonEmptyTitle(Cleaned[i].title) /\ result[i].chapter_num # 0) =>
                    result[i].title = Title("chap", result[i].chapter_num)
              /\ (~NonEmptyTitle(Cleaned[i].title) /\ result[i].chapter_num = 0) =>
                    result[i].title = Title("chap", i)

\* a list came back in which one untitled entry was titled by its number, which
\* is not its position, and another by its position
C12_Witness ==
    /\ pc = "done"
    /\ \E i \in 1..Len(result) :
          /\ ~NonEmptyTitle(Cleaned[i].title)
          /\ result[i].chapter_num = 0
          /\ result[i].title = Title("chap", i)
    /\ \E j \in 1..Len(result) : NonEmptyTitle(Cleaned[j].title) /\ result[j].title = Cleaned[j].title

\* an untitled entry was titled by its resolved number, which is not its position
C12_WitnessNumbered ==
    /\ pc = "done"
    /\ \E i \in 1..Len(result) :
          /\ ~NonEmptyTitle(Cleaned[i].title)
          /\ result[i].chapter_num # 0
          /\ result[i].chapter_num # i
          /\ result[i].title = Title("chap", result[i].chapter_num)

\* ------------------------------------------------------------ extract_title_and_content_from_chapter
\* a piece of text: s is the text without its surrounding white space (""
\* for white space only), bad tells that it sits in an element the extractor
\* decomposes (.ads, .advert, .paybox, script, style, iframe, noscript)
Piece(s) == [s |-> s, bad |-> FALSE]
BadPiece(s) == [s |-> s, bad |-> TRUE]

\* an element of the page: its id, its class, the length of its stripped and
\* of its full text, its <p> children and the lines of its other text
El(id, cls, stripped, full, ps, loose) ==
    [id |-> id, cls |-> cls, stripped |-> stripped, full |-> full, ps |-> ps, loose |-> loose]

CONTENT_IDS == <<"content", "txt">>
CONTENT_CLASSES == <<"content", "nr">>

ElPool == {
    El("content", "", 500, 500, <<Piece("a"), Piece(""), Piece("b")>>, <<Piece("x")>>),
    El("txt", "", 10, 20, <<Piece("")>>, <<Piece("y")>>),
    El("", "content", 300, 300, <<>>, <<Piece("c"), Piece(""), Piece("d")>>),
    El("", "nr", 200, 200, <<BadPiece("ad")>>, <<Piece("e")>>),
    El("", "", 300, 310, <<Piece("f")>>, <<>>),
    El("", "", 121, 400, <<>>, <<Piece("g"), BadPiece("ad")>>),
    El("", "", 50, 50, <<Piece("h")>>, <<>>),
    El("content", "content", 0, 0, <<>>, <<>>)
}

ChapterPages == [h1 : {"", "T"}, ttl : {"", "B - site"}, els : SeqsUpTo(ElPool, MaxEls)]

\* lines 811-816: the h1 text, else the <title> text up to its first separator
title_of(page) ==
    IF page.h1 # "" THEN page.h1
    ELSE IF page.ttl = "B - site" THEN "B" ELSE page.ttl

\* soup.find(id=idn): the first element of that id
ById(els, idn) == FirstOf(SelectSeq(SortedSeq(1..Len(els)), LAMBDA k : els[k].id = idn))

\* soup.find_all(class_=cls): the elements of that class in document order
ByClass(els, cls) == SelectSeq(SortedSeq(1..Len(els)), LAMBDA k : els[k].cls = cls)

\* lines 827-830: the divs of more than 120 stripped characters, the one of the
\* longest full text first (the sort is stable)
LargestDiv(els) ==
    LET divs == SelectSeq(SortedSeq(1..Len(els)), LAMBDA k : els[k].stripped > CONTENT_MIN_CHARS)
        best == CHOOSE i \in 1..Len(divs) :
                   /\ \A j \in 1..Len(divs) : els[divs[j]].full <= els[divs[i]].full
                   /\ \A j \in 1..(i - 1) : els[divs[j]].full < els[divs[i]].full
    IN IF divs = <<>> THEN <<>> ELSE <<divs[best]>>

\* mutant: the class matches are examined before the id matches
content_candidates_classes_first(els) ==
    LET marked == Flatten([n \in 1..Len(CONTENT_CLASSES) |-> ByClass(els, CONTENT_CLASSES[n])])
                  \o Flatten([n \in 1..Len(CONTENT_IDS) |-> ById(els, CONTENT_IDS[n])])
    IN IF marked # <<>> THEN marked ELSE LargestDiv(els)

\* lines 819-830: the candidate containers, as positions in the page
content_candidates(els) ==
    LET marked == Flatten([n \in 1..Len(CONTENT_IDS) |-> ById(els, CONTENT_IDS[n])])
                  \o Flatten([n \in 1..Len(CONTENT_CLASSES) |-> ByClass(els, CONTENT_CLASSES[n])])
    IN IF marked # <<>> THEN marked ELSE LargestDiv(els)

Kept(pieces) == SelectSeq(pieces, LAMBDA x : ~x.bad)

\* the stripped texts that are not empty, in order
NonEmptyTexts(pieces) ==
    LET ne == SelectSeq(pieces, LAMBDA x : x.s # "")
    IN [i \in 1..Len(ne) |-> ne[i].s]

\* lines 836-846 on a container whose unwanted parts are gone
paragraphs_of(el) ==
    IF Kept(el.ps) # <<>> THEN NonEmptyTexts(Kept(el.ps))
    ELSE NonEmptyTexts(Kept(el.loose))

\* lines 850-851: the text lines of the whole body; the containers examined
\* before have lost their unwanted parts
body_lines(els, gone) ==
    Flatten([k \in 1..Len(els) |->
        IF k \in gone THEN NonEmptyTexts(Kept(els[k].ps) \o Kept(els[k].loose))
        ELSE NonEmptyTexts(els[k].ps \o els[k].loose)])

\* mutant: the paragraphs are joined by a single line break
join_newline(ps) ==
    [i \in 1..(IF ps = <<>> THEN 0 ELSE 2 * Len(ps) - 1) |-> IF i % 2 = 1 THEN ps[(i + 1) \div 2] ELSE "NL"]

\* "\n\n".join(ps): the paragraphs with a blank line between neighbours
join_blank(ps) ==
    [i \in 1..(IF ps = <<>> THEN 0 ELSE 2 * Len(ps) - 1) |-> IF i % 2 = 1 THEN ps[(i + 1) \div 2] ELSE "BLANK"]

notContent == <<index_html, web, flaky, exVars, run, first, fetchVars, batchVars, numeralVars, refreshVars, callVars, chapterVars>>

InitContent ==
    /\ index_html = <<>>
    /\ web = <<>>
    /\ flaky = FALSE
    /\ pc = "idle"
    /\ path = "none"
    /\ entries = <<>>
    /\ pages = <<>>
    /\ pi = 0
    /\ queue = <<>>
    /\ qi = 0
    /\ visited = {}
    /\ fetched = <<>>
    /\ failed = {}
    /\ result = <<>>
    /\ run = 1
    /\ first = <<>>
    /\ FetchIdle
    /\ BatchIdle
    /\ CallIdle
    /\ ChapterIdle
    /\ NumeralIdle
    /\ RefreshIdle
    /\ c_html \in ChapterPages
    /\ c_pc = "start"
    /\ c_cands = <<>>
    /\ c_i = 0
    /\ c_gone = {}
    /\ c_title = ""
    /\ c_content = <<>>
    /\ c_paragraphs = <<>>
    /\ c_path = "none"

\* lines 809-830: title and candidates
ContentStart ==
    /\ c_pc = "start"
    /\ c_title' = title_of(c_html)
    /\ c_cands' = content_candidates(c_html.els)
    /\ c_pc' = "scan"
    /\ UNCHANGED <<notContent, c_html, c_i, c_gone, c_content, c_paragraphs, c_path>>

\* lines 831-849: one candidate is examined; it returns when it yields a paragraph
ContentCandidate ==
    /\ c_pc = "scan"
    /\ c_i < Len(c_cands)
    /\ LET el == c_html.els[c_cands[c_i + 1]]
           paragraphs == paragraphs_of(el)
       IN /\ c_gone' = c_gone \cup {c_cands[c_i + 1]}
          /\ IF paragraphs # <<>>
             THEN /\ c_content' = join_blank(paragraphs)
                  /\ c_paragraphs' = paragraphs
                  /\ c_path' = IF Kept(el.ps) # <<>> THEN "p" ELSE "lines"
                  /\ c_pc' = "returned"
             ELSE UNCHANGED <<c_content, c_paragraphs, c_path, c_pc>>
    /\ c_i' = c_i + 1
    /\ UNCHANGED <<notContent, c_html, c_cands, c_title>>

\* lines 850-853: no candidate yielded a paragraph
ContentLastResort ==
    /\ c_pc = "scan"
    /\ c_i = Len(c_cands)
    /\ c_content' = join_blank(body_lines(c_html.els, c_gone))
    /\ c_paragraphs' = body_lines(c_html.els, c_gone)
    /\ c_path' = "body"
    /\ c_pc' = "returned"
    /\ UNCHANGED <<notContent, c_html, c_cands, c_i, c_gone, c_title>>

NextContent ==
    \/ ContentStart
    \/ ContentCandidate
    \/ ContentLastResort

SpecContent == InitContent /\ [][NextContent]_vars

\* ------------------------------------------------------------ claims on the content extractor
\* C13: on every return path the content is the returned paragraphs in order
\* with a blank line between neighbours, and no returned paragraph is empty
C13_ContentIsJoin ==
    c_pc = "returned" =>
        /\ c_path \in {"p", "lines", "body"}
        /\ \A i \in 1..Len(c_paragraphs) : c_paragraphs[i] \notin {"", "BLANK"}
        /\ Len(c_content) = (IF c_paragraphs = <<>> THEN 0 ELSE 2 * Len(c_paragraphs) - 1)
        /\ \A i \in 1..Len(c_paragraphs) : c_content[2 * i - 1] = c_paragraphs[i]
        /\ \A i \in 1..(Len(c_paragraphs) - 1) : c_content[2 * i] = "BLANK"

\* a container with <p> tags, one of them empty, returned two paragraphs
C13_Witness ==
    /\ c_pc = "returned"
    /\ c_path = "p"
    /\ c_paragraphs = <<"a", "b">>
    /\ c_content = <<"a", "BLANK", "b">>

\* the line-break path and the whole-body path returned two lines or more
C13_WitnessLines ==
    /\ c_pc = "returned"
    /\ c_path \in {"lines", "body"}
    /\ Len(c_paragraphs) >= 2

\* ------------------------------------------------------------ _chinese_numeral_to_int
\* characters are written by name: ling yi er san si wu liu qi ba jiu for
\* 零 一 二 三 四 五 六 七 八 九, ling2 for 〇, shi bai qian wan for 十 百 千 万,
\* d0..d9 for the digits 0..9, sp for a blank, a b c for Latin letters
CHN_DIGIT_NAMES == <<"yi", "er", "san", "si", "wu", "liu", "qi", "ba", "jiu">>

IsChnDigit(ch) == ch \in {"ling", "ling2"} \cup Range(CHN_DIGIT_NAMES)

\* _CHN_DIGITS
ChnDigit(ch) ==
    IF ch \in {"ling", "ling2"} THEN 0
    ELSE CHOOSE d \in 1..9 : CHN_DIGIT_NAMES[d] = ch

IsChnUnit(ch) == ch \in {"shi", "bai", "qian", "wan"}

\* _CHN_UNITS
ChnUnit(ch) ==
    CASE ch = "shi" -> 10
      [] ch = "bai" -> 100
      [] ch = "qian" -> 1000
      [] ch = "wan" -> 10000

ASCII_DIGIT_NAMES == <<"d1", "d2", "d3", "d4", "d5", "d6", "d7", "d8", "d9">>

IsAsciiDigit(ch) == ch = "d0" \/ ch \in Range(ASCII_DIGIT_NAMES)

AsciiDigit(ch) == IF ch = "d0" THEN 0 ELSE CHOOSE d \in 1..9 : ASCII_DIGIT_NAMES[d] = ch

RECURSIVE StripLeft(_)
StripLeft(s) == IF s # <<>> /\ Head(s) = "sp" THEN StripLeft(Tail(s)) ELSE s

\* s.strip()
Strip(s) == Reverse(StripLeft(Reverse(StripLeft(s))))

\* s.isdigit()
IsDigitStr(s) == s # <<>> /\ \A i \in 1..Len(s) : IsAsciiDigit(s[i])

\* int(s) of a digit string
RECURSIVE IntOf(_, _)
IntOf(s, acc) == IF s = <<>> THEN acc ELSE IntOf(Tail(s), acc * 10 + AsciiDigit(Head(s)))

NONE == -1

\* lines 217-234: the loop over the characters, then the result
RECURSIVE NumeralLoop(_, _, _, _)
NumeralLoop(s, total, current, has_unit) ==
    IF s = <<>>
    THEN (IF total + current = 0 /\ has_unit /\ current = 0 THEN 10
          ELSE IF total + current > 0 THEN total + current ELSE NONE)
    ELSE IF IsChnDigit(Head(s)) THEN NumeralLoop(Tail(s), total, current * 10 + ChnDigit(Head(s)), has_unit)
    ELSE IF IsChnUnit(Head(s))
         THEN NumeralLoop(Tail(s), total + (IF current = 0 THEN 1 ELSE current) * ChnUnit(Head(s)), 0, TRUE)
    ELSE NONE

chinese_numeral_to_int(s) ==
    IF s = <<>> THEN NONE
    ELSE IF IsDigitStr(Strip(s)) THEN IntOf(Strip(s), 0)
    ELSE NumeralLoop(Strip(s), 0, 0, FALSE)

\* the standard numeral of a section 1..9999, from its digit at position i
\* (1: thousands .. 4: ones); at the head of a numeral 10..19 are written
\* without the leading yi
RECURSIVE SectionFrom(_, _, _, _, _)
SectionFrom(k, i, started, zero, head) ==
    IF i > 4 THEN <<>>
    ELSE LET d == (k \div (CASE i = 1 -> 1000 [] i = 2 -> 100 [] i = 3 -> 10 [] OTHER -> 1)) % 10
             unit == CASE i = 1 -> <<"qian">> [] i = 2 -> <<"bai">> [] i = 3 -> <<"shi">> [] OTHER -> <<>>
         IN IF d = 0 THEN SectionFrom(k, i + 1, started, started, head)
            ELSE (IF zero THEN <<"ling">> ELSE <<>>)
                 \o (IF head /\ ~started /\ i = 3 /\ d = 1 THEN <<>> ELSE <<CHN_DIGIT_NAMES[d]>>)
                 \o unit
                 \o SectionFrom(k, i + 1, TRUE, FALSE, head)

\* the standard numeral of n, 1 <= n < 100000000
StdNumeral(n) ==
    IF n < 10000 THEN SectionFrom(n, 1, FALSE, FALSE, TRUE)
    ELSE SectionFrom(n \div 10000, 1, FALSE, FALSE, TRUE) \o <<"wan">>
         \o (IF n % 10000 = 0 THEN <<>>
             ELSE IF n % 10000 < 1000 THEN <<"ling">> \o SectionFrom(n % 10000, 1, FALSE, FALSE, FALSE)
             ELSE SectionFrom(n % 10000, 1, FALSE, FALSE, FALSE))

\* the integers whose numerals are handed to the function
NumeralValues == (1..MaxNumeral) \cup {1005, 2020, 9999, 10000, 10050, 12000, 99999, 100000, 120000, 200000, 1000000}

\* arguments that are no standard numeral of a positive integer
OtherStrings == {
    <<>>, <<"sp">>, <<"ling">>,
    <<"a", "b", "c">>, <<"shi", "a">>, <<"a", "shi">>,
    <<"sp", "shi", "er">>, <<"shi", "er", "sp">>, <<"shi", "sp", "er">>,
    <<"d1", "d2">>, <<"d0">>, <<"d0", "d7">>, <<"d1", "yi">>
}

notNumeral == <<index_html, web, flaky, exVars, run, first, fetchVars, batchVars, contentVars, refreshVars, callVars, chapterVars>>

InitNumeral ==
    /\ index_html = <<>>
    /\ web = <<>>
    /\ flaky = FALSE
    /\ pc = "idle"
    /\ path = "none"
    /\ entries = <<>>
    /\ pages = <<>>
    /\ pi = 0
    /\ queue = <<>>
    /\ qi = 0
    /\ visited = {}
    /\ fetched = <<>>
    /\ failed = {}
    /\ result = <<>>
    /\ run = 1
    /\ first = <<>>
    /\ FetchIdle
    /\ BatchIdle
    /\ CallIdle
    /\ ChapterIdle
    /\ ContentIdle
    /\ RefreshIdle
    /\ \/ \E n \in NumeralValues : n_in = StdNumeral(n) /\ n_means = n
       \/ n_in \in OtherStrings /\ n_means = 0
    /\ n_pc = "call"
    /\ n_out = NONE

\* lines 210-234
NumeralCall ==
    /\ n_pc = "call"
    /\ n_out' = chinese_numeral_to_int(n_in)
    /\ n_pc' = "done"
    /\ UNCHANGED <<notNumeral, n_in, n_means>>

NextNumeral == NumeralCall

SpecNumeral == InitNumeral /\ [][NextNumeral]_vars

\* ------------------------------------------------------------ claims on _chinese_numeral_to_int
HasForeign(s) == \E i \in 1..Len(s) : ~IsChnDigit(s[i]) /\ ~IsChnUnit(s[i])

\* C14: the function returns n for the standard numeral of every positive
\* integer n, and None for every string with a character that is neither a
\* Chinese digit nor one of the units
C14_NumeralContract ==
    n_pc = "done" =>
        /\ n_means > 0 => n_out = n_means
        /\ HasForeign(n_in) => n_out = NONE

\* the first half alone: standard numerals are read as the integers they denote
C14_StandardValue == (n_pc = "done" /\ n_means > 0) => n_out = n_means

\* the first half below 100000, where no section precedes wan
C14_ValueBelowTenWan == (n_pc = "done" /\ n_means > 0 /\ n_means < 100000) => n_out = n_means

\* the second half on strings whose foreign characters are not blanks at the
\* ends and which are not all digits
C14_LetterIsNone ==
    (n_pc = "done" /\ HasForeign(Strip(n_in)) /\ ~IsDigitStr(Strip(n_in))) => n_out = NONE

\* ------------------------------------------------------------ the reader's index refresh
notRefresh == <<index_html, web, flaky, exVars, run, first, fetchVars, batchVars, contentVars, numeralVars, callVars, chapterVars>>

\* the index thread has finished without error; the stored position is any
\* integer the library file may hold
InitRefresh ==
    /\ ExtractIdle
    /\ FetchIdle
    /\ BatchIdle
    /\ CallIdle
    /\ ChapterIdle
    /\ ContentIdle
    /\ NumeralIdle
    /\ r_prev \in -1..MaxIndex
    /\ r_len \in 0..MaxChapters
    /\ r_pc = "finished"
    /\ r_idx = r_prev

\* novel_reader_pro.py lines 534-538: an empty list is refused, nothing is stored
RefreshEmpty ==
    /\ r_pc = "finished"
    /\ r_len = 0
    /\ r_pc' = "rejected"
    /\ UNCHANGED <<notRefresh, r_prev, r_len, r_idx>>

\* novel_reader_pro.py lines 576-584: the list is replaced, the position kept or reset
handle_refresh_success ==
    /\ r_pc = "finished"
    /\ r_len > 0
    /\ r_idx' = IF 0 <= r_prev /\ r_prev < r_len THEN r_prev ELSE 0
    /\ r_pc' = "done"
    /\ UNCHANGED <<notRefresh, r_prev, r_len>>

NextRefresh ==
    \/ RefreshEmpty
    \/ handle_refresh_success

SpecRefresh == InitRefresh /\ [][NextRefresh]_vars

\* ------------------------------------------------------------ claims on the index refresh
\* C15: after a successful refresh the stored position is the previous one
\* clamped into the new list: unchanged when it is in range, else the nearest
\* valid position, so always within 0 .. len - 1
C15_Clamped ==
    r_pc = "done" =>
        /\ 0 <= r_idx /\ r_idx < r_len
        /\ (0 <= r_prev /\ r_prev < r_len) => r_idx = r_prev
        /\ r_prev < 0 => r_idx = 0
        /\ r_prev >= r_len => r_idx = r_len - 1

\* the part of C15 about the bounds alone
C15_InBounds == r_pc = "done" => (0 <= r_idx /\ r_idx < r_len)

\* ------------------------------------------------------------ claims on breadth-first discovery
\* the secondary pages the breadth-first pass obtained, in the order it fetched them
BfsObtained == SelectSeq(fetched, LAMBDA u : u \notin failed)

BfsObtainedRefs == [i \in 1..Len(BfsObtained) |-> PageRef(PaginationNum(BfsObtained[i]), BfsObtained[i])]

\* the list rebuilt from the directory pages in ascending page number, page 1
\* being the supplied html
BfsRebuilt ==
    LET ps == SortByIdx(BfsObtainedRefs)
    IN extract_entries_from_paged_html(index_html, base_url)
       \o Flatten([i \in 1..Len(ps) |-> extract_entries_from_paged_html(web[ps[i].url], ps[i].url)])

\* C16: when no option names a page and breadth-first discovery obtains
\* secondary pages, the returned list is rebuilt from the directory pages, their
\* entries concatenated in ascending page number
C16_BfsRebuiltAscending ==
    (pc = "done" /\ path = "bfs" /\ BfsObtained # <<>>) =>
        Urls(result) = Urls(KeepFirst(BfsRebuilt))

\* the ordering part alone: the pages are fetched, and so appended, in
\* ascending page number
C16_BfsFetchAscending ==
    path = "bfs" =>
        \A i, j \in 1..Len(fetched) : i < j => PaginationNum(fetched[i]) <= PaginationNum(fetched[j])

\* the rebuilding part alone: the entries of the first page taken before
\* pagination was looked at are not part of the list unless a directory page
\* holds them
C16_BfsFromScratch ==
    (pc = "done" /\ path = "bfs" /\ BfsObtained # <<>>) =>
        Range(Urls(result)) = Range(Urls(BfsRebuilt))

\* ------------------------------------------------------------ claims on the choice of strategy
\* the first page has a dl whose body group yields entries, and options naming a page >= 2
DlAndOptions ==
    /\ main_chapters(DlBlocks(index_html), base_url) # <<>>
    /\ OptionUrls(index_html) # {}

\* C17 as stated: with a dl body group and option pages on the first page, the
\* pagination merge runs and the list is built from the paginated pages only
C17_AsStated ==
    (pc = "done" /\ DlAndOptions) =>
        /\ path = "paged"
        /\ Urls(result) = Urls(KeepFirst(Flatten([i \in 1..Len(pages) |-> Obtained(pages[i])])))

\* C17 amended: with a dl body group and option pages on the first page, the
\* entries of the body groups are returned at once: no option is read, no page
\* is fetched, and the list is the finalized body-group entries
C17_DlReturnsFirst ==
    DlAndOptions =>
        /\ path \in {"none", "dl"}
        /\ pages = <<>>
        /\ fetched = <<>>
        /\ pc = "done" =>
              /\ path = "dl"
              /\ Urls(result) = Urls(KeepFirst(main_chapters(DlBlocks(index_html), base_url)))

\* a call on such a page has returned a non-empty list
C17_Witness ==
    /\ pc = "done"
    /\ DlAndOptions
    /\ \E u \in OptionUrls(index_html) : u \in DOMAIN web /\ web[u] # <<>>
    /\ Len(result) >= 2

\* the ul.chapter the strategies 2 and 3 settle on, by identification alone:
\* the first of id allChapters2, else the first under id allChapters, else the
\* first with a hint nearby, else the first of the most items if it has 5
ChosenUl(page) ==
    LET uls == UlBlocks(page)
        all == 1..Len(uls)
        id2 == {i \in all : uls[i].id \in {"self2", "in2"}}
        id1 == {i \in all : uls[i].id = "in1"}
        hint == {i \in all : uls[i].hint}
        long == {i \in all : LiCount(uls[i]) >= LI_MIN /\ \A j \in all : LiCount(uls[j]) <= LiCount(uls[i])}
    IN IF id2 # {} THEN <<uls[SetMin(id2)]>>
       ELSE IF id1 # {} THEN <<uls[SetMin(id1)]>>
       ELSE IF hint # {} THEN <<uls[SetMin(hint)]>>
       ELSE IF long # {} THEN <<uls[SetMin(long)]>>
       ELSE <<>>

\* the accepted entries of each strategy in the order of the claim: dl layout,
\* container of id allChapters2, of id allChapters, heuristic ul, full page
StrategyLists(page) ==
    LET uls == UlBlocks(page)
        of(m) == IF m = <<>> THEN <<>> ELSE KeepFirst(EntriesOf(m[1].items, base_url))
    IN << dl_entries(page),
          of(SelectSeq(uls, HasId2)),
          of(SelectSeq(uls, HasIdIn1)),
          of(IF SelectSeq(uls, HasHint) # <<>> THEN SelectSeq(uls, HasHint)
             ELSE IF uls # <<>> /\ LiCount(LongestUl(uls)) >= LI_MIN THEN <<LongestUl(uls)>> ELSE <<>>),
          KeepFirst(EntriesOf(AllAnchors(page), base_url)) >>

FirstNonEmpty(lists) ==
    LET ne == SelectSeq(lists, LAMBDA l : l # <<>>)
    IN IF ne = <<>> THEN <<>> ELSE Head(ne)

IsPrefix(s, t) == Len(s) <= Len(t) /\ SubSeq(t, 1, Len(s)) = s

\* the first page has been read and no secondary page yet
FirstPageRead == pc = "bfs" /\ fetched = <<>>

\* C18 as stated: the primary entries are those of the first strategy that
\* yields a non-empty list
C18_AsStated ==
    FirstPageRead =>
        /\ FirstNonEmpty(StrategyLists(index_html)) # <<>> => entries # <<>>
        /\ IsPrefix(FirstNonEmpty(StrategyLists(index_html)), entries)

\* C18 amended: the dl layout is used when it yields entries; otherwise the
\* container is settled by identification alone and the primary entries are its
\* accepted anchors, none included; the full page is scanned only when no
\* container is identified
C18_StrategyOrder ==
    /\ dl_entries(index_html) # <<>> => path \in {"none", "dl"}
    /\ FirstPageRead =>
          /\ dl_entries(index_html) = <<>>
          /\ LET c == ChosenUl(index_html)
             IN IF c # <<>>
                THEN /\ IsPrefix(KeepFirst(EntriesOf(c[1].items, base_url)), entries)
                     /\ \A i \in 1..Len(entries) :
                           \E k \in 1..Len(c[1].items) : abs_url(base_url, c[1].items[k].href) = entries[i].url
                ELSE entries = KeepFirst(EntriesOf(AllAnchors(index_html), base_url))

\* an identified container held no chapter link: nothing was collected although
\* the page has chapter links elsewhere
C18_Witness ==
    /\ FirstPageRead
    /\ ChosenUl(index_html) # <<>>
    /\ entries = <<>>
    /\ EntriesOf(AllAnchors(index_html), base_url) # <<>>

\* no container was identified and the full page was scanned, a dl without
\* accepted entries notwithstanding
C18_WitnessFullPage ==
    /\ FirstPageRead
    /\ ChosenUl(index_html) = <<>>
    /\ entries # <<>>

\* ------------------------------------------------------------ claims on _extract_from_dl_structure
\* the dd anchors, in document order, of the groups whose dt is of one of the
\* kinds, that _entry_from_anchor accepts
GroupAnchors(page, kinds) ==
    LET dls == DlBlocks(page)
        positions == {<<d, g, k>> \in (1..Len(dls)) \X (1..6) \X (1..6) :
                        /\ g <= Len(dls[d].groups)
                        /\ k <= Len(dls[d].groups[g].dds)
                        /\ dls[d].groups[g].dt \in kinds
                        /\ entry_from_anchor(dls[d].groups[g].dds[k], base_url) # <<>>}
        before(p, q) == \/ p[1] < q[1]
                        \/ p[1] = q[1] /\ p[2] < q[2]
                        \/ p[1] = q[1] /\ p[2] = q[2] /\ p[3] < q[3]
        rank(p) == Cardinality({q \in positions : before(q, p)}) + 1
    IN [i \in 1..Cardinality(positions) |->
          LET p == CHOOSE q \in positions : rank(q) = i
          IN abs_url(base_url, dls[p[1]].groups[p[2]].dds[p[3]].href)]

\* C19: when a group whose dt matches the body pattern (a dt matching both
\* patterns included) yields an entry, the dl result is the entries of the body
\* groups in document order and the preview groups are ignored; otherwise, when
\* preview groups yield entries, it is their entries in reverse document order
C19_DlClassification ==
    LET body == GroupAnchors(index_html, {"main", "both"})
        latest == GroupAnchors(index_html, {"latest"})
    IN /\ (pc = "done" /\ body # <<>>) => (path = "dl" /\ Urls(entries) = body)
       /\ (pc = "done" /\ body = <<>> /\ latest # <<>>) =>
             /\ path = "dl"
             /\ Len(entries) = Len(latest)
             /\ \A i \in 1..Len(latest) : entries[i].url = latest[Len(latest) + 1 - i]

\* a page with a dt matching both patterns, a preview group and a second body
\* group returned the body entries of both dl
C19_Witness ==
    /\ pc = "done"
    /\ path = "dl"
    /\ \E d \in 1..Len(DlBlocks(index_html)) : \E g \in 1..Len(DlBlocks(index_html)[d].groups) :
          DlBlocks(index_html)[d].groups[g].dt = "both"
    /\ GroupAnchors(index_html, {"latest"}) # <<>>
    /\ Len(entries) = 3

\* preview groups alone: their entries came back reversed
C19_WitnessLatest ==
    /\ pc = "done"
    /\ path = "dl"
    /\ GroupAnchors(index_html, {"main", "both"}) = <<>>
    /\ Len(GroupAnchors(index_html, {"latest"})) = 4
    /\ Urls(entries) = Reverse(GroupAnchors(index_html, {"latest"}))

\* ------------------------------------------------------------ claims on the weak dl fallback
\* the urls of the accepted dd anchors of the dl elements satisfying a condition
DdUrls(page, listOnly) ==
    LET dls == DlBlocks(page)
        kept == SelectSeq(dls, LAMBDA d : listOnly => d.inList)
    IN Urls(Flatten([d \in 1..Len(kept) |-> EntriesOf(AllDd(kept[d]), base_url)]))

Unclassified(page) ==
    /\ DlBlocks(page) # <<>>
    /\ GroupAnchors(page, {"main", "both", "latest"}) = <<>>

\* C20: when no dt group is classified, the dl result is either the dd entries
\* inside #list, at least 5 of them, or all dd entries of the page, at least
\* 20 of them; a result of the #list rule holds no entry of a dl outside #list
C20_WeakFallback ==
    (pc = "done" /\ path = "dl" /\ Unclassified(index_html)) =>
        \/ /\ Urls(entries) = DdUrls(index_html, TRUE)
           /\ Len(entries) >= WEAK_LIST_MIN
        \/ /\ Urls(entries) = DdUrls(index_html, FALSE)
           /\ Len(entries) >= WEAK_GLOBAL_MIN

\* what the fallback does return: a prefix of all dd entries of the page, ended
\* at a dl inside #list once 5 are collected, or all of them at 20 or more
C20_CollectedPrefix ==
    (pc = "done" /\ path = "dl" /\ Unclassified(index_html)) =>
        /\ IsPrefix(Urls(entries), DdUrls(index_html, FALSE))
        /\ \/ Len(entries) >= WEAK_GLOBAL_MIN
           \/ /\ Len(entries) >= WEAK_LIST_MIN
              /\ DdUrls(index_html, TRUE) # <<>>

\* the #list rule returned entries of a dl outside #list
C20_WitnessOutside ==
    /\ pc = "done"
    /\ path = "dl"
    /\ Unclassified(index_html)
    /\ Len(entries) = 5
    /\ Len(DdUrls(index_html, TRUE)) = 4
    /\ entries[1].url \notin {DdUrls(index_html, TRUE)[i] : i \in 1..4}

\* the global rule returned twenty entries
C20_WitnessGlobal ==
    /\ pc = "done"
    /\ path = "dl"
    /\ Unclassified(index_html)
    /\ DdUrls(index_html, TRUE) = <<>>
    /\ Len(entries) = 20

\* four dd links inside #list: the dl strategy returned nothing
C20_WitnessTooFew ==
    /\ pc = "done"
    /\ path # "dl"
    /\ Unclassified(index_html)
    /\ Len(DdUrls(index_html, FALSE)) = 4

\* ------------------------------------------------------------ claims on pagination discovery
NoRepeatedFetch == \A i, j \in 1..Len(fetched) : i < j => fetched[i] # fetched[j]

C21_WitnessBfs ==
    /\ pc = "done"
    /\ path = "bfs"
    /\ Options(index_html) # <<>>
    /\ fetched # <<>>

\* ------------------------------------------------------------ breadth-first discovery alone
\* first pages made of page-picker and pagination links alone, on which the call
\* reaches the breadth-first discovery; every directory page holds a chapter list
InitBfs ==
    /\ Init
    /\ index_html \in FirstNavs
    /\ \A u \in PageUrls : web[u] # <<>> /\ IsUl(web[u][1])
    /\ dl_entries(index_html) = <<>>
    /\ ~has_paged(pages_plan(index_html, base_url))

NextBfs ==
    \/ StartBfs
    \/ BfsFetchOk
    \/ BfsFetchFail
    \/ BfsEnd

\* the discovery loop is sequential code: once entered it always takes its next step
BfsStep == BfsFetchOk \/ BfsFetchFail \/ BfsEnd

SpecBfs == InitBfs /\ [][NextBfs]_vars /\ WF_vars(BfsStep)

Occurrences(s, u) == Cardinality({i \in 1..Len(s) : s[i] = u})

\* every url was passed to fetch_html at most once, failed ones included, the
\* base url never, and only urls taken from the queue of discovered urls
FetchedOnce ==
    /\ \A u \in Range(fetched) : Occurrences(fetched, u) = 1
    /\ \A u \in failed : Occurrences(fetched, u) = 1
    /\ base_url \notin Range(fetched)
    /\ Range(fetched) \subseteq Range(queue)
    /\ Range(queue) \subseteq visited \ {base_url}

notCall == <<index_html, web, flaky, exVars, run, first, fetchVars, batchVars, contentVars, numeralVars, refreshVars, chapterVars>>

NotCalled == ExtractIdle /\ FetchIdle /\ BatchIdle /\ ContentIdle /\ NumeralIdle /\ RefreshIdle /\ ChapterIdle

\* a first page: the chapters 1..n, then chapter top (0: none), then w links
\* without a chapter number, in a container (kind "ul") or loose in the page
GapInput(n, top, w, kind) == [n |-> n, top |-> top, w |-> w, kind |-> kind]

GapItems(in) ==
    [i \in 1..in.n |-> Ch(i)]
      \o (IF in.top > 0 THEN <<Ch(in.top)>> ELSE <<>>)
      \o [i \in 1..in.w |-> A(Url("word", i), Title("plain", 0))]

GapPage(in) ==
    IF in.kind = "ul" THEN <<Ul("in2", FALSE, FALSE, GapItems(in))>> ELSE <<Loose(GapItems(in))>>

\* how far chapter top lies above the run
GapSteps == {1, 2, 4, GAP_LIMIT + 1, GAP_LIMIT + 2}

\* runs around the length at which the cap changes
LargeRuns == {GAP_LARGE_ENTRIES - 1, GAP_LARGE_ENTRIES}

GapInputs ==
    {GapInput(n, top, w, kind) : n \in 0..MaxRun, top \in {0} \cup GapSteps, w \in 0..1, kind \in {"ul", "loose"}}
    \cup {GapInput(n, GAP_LIMIT + 2, w, "ul") : n \in LargeRuns, w \in 0..1}

\* top is given as a distance above the run
GapTop(in) == IF in.top = 0 THEN 0 ELSE in.n + in.top

GapArgs(in) == [in EXCEPT !.top = GapTop(in)]

InitGap ==
    /\ NotCalled
    /\ call_fn = "gap_fill"
    /\ call_in \in {GapArgs(in) : in \in GapInputs}
    /\ call_pc = "call"
    /\ call_out = <<>>

\* entries when the pass begins: every link of the page is accepted, each once
GapEntries(in) ==
    [i \in 1..Len(GapItems(in)) |-> entry_from_anchor(GapItems(in)[i], base_url)[1]]

\* lines 445-499 on the entries and the container of the page; probed is the
\* list missing after the cap, added the number of entries the pass appended
GapCall ==
    /\ call_fn = "gap_fill"
    /\ call_pc = "call"
    /\ LET page == GapPage(call_in)
           cont == all_chapters_ul(page)
           es == GapEntries(call_in)
       IN call_out' = [probed |-> gap_missing(es, cont),
                       added |-> Len(gap_fill(es, cont, base_url)) - Len(es)]
    /\ call_pc' = "done"
    /\ UNCHANGED <<notCall, call_fn, call_in>>

NextGap == GapCall

SpecGap == InitGap /\ [][NextGap]_vars

\* C23: the pass probes at most 240 numbers, at most 120 when the list has more
\* than 1500 entries, and appends at most one entry per probe; it probes only
\* when at least 5 entries have a chapter number and a container was chosen;
\* the probed numbers are the smallest missing numbers between the minimum and
\* the maximum, in ascending order
C23_GapBounded ==
    (call_fn = "gap_fill" /\ call_pc = "done") =>
        LET present == (1..call_in.n) \cup (IF call_in.top > 0 THEN {call_in.top} ELSE {})
            numbered == Cardinality(present)
            total == numbered + call_in.w
            missing == IF present = {} THEN {}
                       ELSE {k \in 1..(IF call_in.top > 0 THEN call_in.top ELSE call_in.n) : k \notin present}
            limit == IF total > 1500 THEN 120 ELSE 240
            P == call_out.probed
        IN /\ Len(P) <= limit
           /\ call_out.added >= 0
           /\ call_out.added <= Len(P)
           /\ (P # <<>>) => (numbered >= 5 /\ call_in.kind = "ul")
           /\ Range(P) \subseteq missing
           /\ \A i, j \in 1..Len(P) : i < j => P[i] < P[j]
           /\ \A y \in missing \ Range(P) : \A x \in Range(P) : x < y
           /\ (numbered >= 5 /\ call_in.kind = "ul") =>
                 Len(P) = (IF Cardinality(missing) < limit THEN Cardinality(missing) ELSE limit)

\* more than 1500 entries and more than 120 missing numbers: 120 were probed
C23_Witness ==
    /\ call_fn = "gap_fill"
    /\ call_pc = "done"
    /\ call_in.n + 1 + call_in.w > 1500
    /\ call_in.top - call_in.n - 1 > 120
    /\ Len(call_out.probed) = 120

\* at most 1500 entries and more than 240 missing numbers: 240 were probed
C23_WitnessSmall ==
    /\ call_fn = "gap_fill"
    /\ call_pc = "done"
    /\ call_in.n + 1 + call_in.w <= 1500
    /\ call_in.top - call_in.n - 1 > 240
    /\ Len(call_out.probed) = 240

\* ------------------------------------------------------------ the chapter-number parsers
\* keledushu_index._parse_chapnum: the raw title is searched for the heading
\* with digits first, the url tail is read only when the title gives nothing
kele_parse_chapnum(t, u) ==
    IF t.kind = "chap" THEN t.n ELSE NumTail(u)

ChapTitles ==
    {Title(k, n) : k \in {"chap", "zhang", "typo", "bare"}, n \in 1..MaxChapNum}
    \cup {Title(k, 0) : k \in {"plain", "noise", "blank", "empty"}}
    \cup {NoTitle}

ChapUrls == {Url(k, n) : k \in {"num", "word", "page"}, n \in 1..MaxChapNum}

InitChapnum ==
    /\ NotCalled
    /\ call_fn = "parse_chapnum"
    /\ call_in \in [title : ChapTitles, url : ChapUrls]
    /\ call_pc = "call"
    /\ call_out = <<>>

\* the chapter number each copy of the parser resolves for the entry, and the
\* chapter_num _finalize_entries of analysis_index records for it
ChapnumCall ==
    /\ call_fn = "parse_chapnum"
    /\ call_pc = "call"
    /\ call_out' = [analysis |-> parse_chapnum(call_in.title, call_in.url),
                    keledushu |-> kele_parse_chapnum(call_in.title, call_in.url),
                    final |-> FinalRecord(1, Entry(call_in.title, call_in.url)).chapter_num]
    /\ call_pc' = "done"
    /\ UNCHANGED <<notCall, call_fn, call_in>>

NextChapnum == ChapnumCall

SpecChapnum == InitChapnum /\ [][NextChapnum]_vars

\* C24: whenever the url ends in <digits>.html, every copy of the parser
\* resolves that number, whatever the title says
C24_UrlFirst ==
    (call_fn = "parse_chapnum" /\ call_pc = "done" /\ NumTail(call_in.url) # 0) =>
        /\ call_out.analysis = NumTail(call_in.url)
        /\ call_out.final = NumTail(call_in.url)
        /\ call_out.keledushu = NumTail(call_in.url)

\* the precedence holds in analysis_index: in _parse_chapnum and in _finalize_entries
C24_UrlFirstAnalysis ==
    (call_fn = "parse_chapnum" /\ call_pc = "done" /\ NumTail(call_in.url) # 0) =>
        /\ call_out.analysis = NumTail(call_in.url)
        /\ call_out.final = NumTail(call_in.url)

\* a heading number that differs from the url tail: keledushu_index resolves the heading number
C24_WitnessTitleWins ==
    /\ call_fn = "parse_chapnum"
    /\ call_pc = "done"
    /\ call_in.title.kind = "chap"
    /\ NumTail(call_in.url) # 0
    /\ call_in.title.n # NumTail(call_in.url)
    /\ call_out.keledushu = call_in.title.n
    /\ call_out.analysis = NumTail(call_in.url)

\* ------------------------------------------------------------ _normalize_title on the characters
\* A title is a sequence of characters, each of one class:
\*   di  第          ty  底 or 都       nu  a numeral of the heading class
\*   zh  章          zt  one of 张璋漳仗中钟衷
\*   sp  white space                    x   any other character
TitleChars == {"di", "ty", "nu", "zh", "zt", "sp", "x"}

\* _clean_text: runs of white space become one space, the ends are stripped
clean_text_chars(s) ==
    LET keep == {i \in 1..Len(s) :
                    \/ s[i] # "sp"
                    \/ /\ i > 1
                       /\ s[i - 1] # "sp"
                       /\ \E j \in (i + 1)..Len(s) : s[j] # "sp"}
        order == SortedSeq(keep)
    IN [k \in 1..Len(order) |-> s[order[k]]]

\* s[a..b] consists of characters of the class c only (true when a > b)
AllOf(s, a, b, c) == \A i \in a..b : s[i] = c

\* the pattern <from> \s* numerals+ matches at position k and ends before e
RunAfter(s, k, e) ==
    \E a \in (k + 1)..(e - 1) : \E b \in a..(e - 1) :
        /\ AllOf(s, k + 1, a - 1, "sp")
        /\ AllOf(s, a, b, "nu")
        /\ b = e - 1

\* line 201: ^(底|都)(\s*numerals+) becomes 第\2
fix_prefix_typo(s) ==
    IF s # <<>> /\ s[1] = "ty" /\ \E e \in 3..(Len(s) + 1) : RunAfter(s, 1, e)
    THEN [s EXCEPT ![1] = "di"]
    ELSE s

\* line 203: (第\s*numerals+\s*)[张璋漳仗中钟衷] becomes \1章, at every match
fix_chapter_char(s) ==
    [i \in 1..Len(s) |->
        IF /\ s[i] = "zt"
           /\ \E k \in 1..(i - 1) : \E e \in (k + 2)..i :
                 /\ s[k] = "di"
                 /\ RunAfter(s, k, e)
                 /\ AllOf(s, e, i - 1, "sp")
        THEN "zh" ELSE s[i]]

\* lines 195-206
normalize_title_chars(s) ==
    LET t == clean_text_chars(s)
    IN IF t = <<>> THEN t
       ELSE clean_text_chars(fix_chapter_char(fix_prefix_typo(t)))

InitTitle ==
    /\ NotCalled
    /\ call_fn = "normalize_title"
    /\ call_in \in SeqsUpTo(TitleChars, MaxTitle)
    /\ call_pc = "call"
    /\ call_out = <<>>

TitleCall ==
    /\ call_fn = "normalize_title"
    /\ call_pc = "call"
    /\ call_out' = normalize_title_chars(call_in)
    /\ call_pc' = "done"
    /\ UNCHANGED <<notCall, call_fn, call_in>>

NextTitle == TitleCall

SpecTitle == InitTitle /\ [][NextTitle]_vars

\* the cleaned title begins with 第, 底 or 都 followed by a numeral run
BeginsWithHeading(t) ==
    /\ t # <<>>
    /\ t[1] \in {"di", "ty"}
    /\ \E e \in 3..(Len(t) + 1) : RunAfter(t, 1, e)

\* the heading prefix: the first character, the numeral run, and the chapter
\* character that follows the run
HeadingEnd(t) ==
    LET stop == CHOOSE e \in 3..(Len(t) + 1) :
                 /\ RunAfter(t, 1, e)
                 /\ \A f \in 3..(Len(t) + 1) : RunAfter(t, 1, f) => f <= e
        after == {i \in stop..Len(t) : t[i] # "sp"}
    IN IF after = {} THEN Len(t) ELSE SetMin(after)

\* C25: a title that does not begin with a chapter heading comes out as
\* clean_text(title); in a title that does, the characters after the heading
\* prefix are unchanged
C25_OnlyHeadingPrefix ==
    (call_fn = "normalize_title" /\ call_pc = "done") =>
        LET t == clean_text_chars(call_in)
        IN /\ Len(call_out) = Len(t)
           /\ ~BeginsWithHeading(t) => call_out = t
           /\ BeginsWithHeading(t) => \A i \in (HeadingEnd(t) + 1)..Len(t) : call_out[i] = t[i]

\* what does hold: the result differs from clean_text(title) only in a first
\* 底/都 before a numeral run and in a 张-class character after a 第-numeral run
C25_OnlyHeadingShapes ==
    (call_fn = "normalize_title" /\ call_pc = "done") =>
        LET t == clean_text_chars(call_in)
        IN /\ Len(call_out) = Len(t)
           /\ \A i \in 1..Len(t) :
                 \/ call_out[i] = t[i]
                 \/ i = 1 /\ t[i] = "ty" /\ call_out[i] = "di"
                 \/ /\ t[i] = "zt"
                    /\ call_out[i] = "zh"
                    /\ \E k \in 1..(i - 1) : t[k] \in {"di", "ty"} /\ \E e \in (k + 2)..i : RunAfter(t, k, e)

\* a 第-numeral-中 in the middle of prose was rewritten
C25_WitnessProse ==
    /\ call_fn = "normalize_title"
    /\ call_pc = "done"
    /\ call_in = <<"x", "di", "nu", "zt">>
    /\ call_out = <<"x", "di", "nu", "zh">>

\* ------------------------------------------------------------ claims on the candidate order
\* the position of the first element of the page with the id, 0 if none
FirstWithId(els, idn) ==
    IF \E k \in 1..Len(els) : els[k].id = idn
    THEN SetMin({k \in 1..Len(els) : els[k].id = idn}) ELSE 0

\* position k of the page is examined before position l
ExaminedBefore(els, k, l) ==
    LET idRank(x) == IF \E n \in 1..Len(CONTENT_IDS) : FirstWithId(els, CONTENT_IDS[n]) = x
                     THEN SetMin({n \in 1..Len(CONTENT_IDS) : FirstWithId(els, CONTENT_IDS[n]) = x}) ELSE 0
        clsRank(x) == IF \E n \in 1..Len(CONTENT_CLASSES) : els[x].cls = CONTENT_CLASSES[n]
                      THEN SetMin({n \in 1..Len(CONTENT_CLASSES) : els[x].cls = CONTENT_CLASSES[n]}) ELSE 0
        slot(x) == IF idRank(x) > 0 THEN <<1, idRank(x), 0>> ELSE <<2, clsRank(x), x>>
    IN \/ slot(k)[1] < slot(l)[1]
       \/ slot(k)[1] = slot(l)[1] /\ slot(k)[2] < slot(l)[2]
       \/ slot(k)[1] = slot(l)[1] /\ slot(k)[2] = slot(l)[2] /\ slot(k)[3] < slot(l)[3]

Marked(els) ==
    {k \in 1..Len(els) :
        \/ \E n \in 1..Len(CONTENT_IDS) : FirstWithId(els, CONTENT_IDS[n]) = k
        \/ \E n \in 1..Len(CONTENT_CLASSES) : els[k].cls = CONTENT_CLASSES[n]}

\* the divs of more than 120 stripped characters
BigDivs(els) == {k \in 1..Len(els) : els[k].stripped > 120}

\* C26: the paragraphs returned are those of the first candidate, ids in list
\* order before classes in list order, that yields a paragraph; without a
\* marked element the candidate is the div of more than 120 characters with the
\* longest text; the whole-body text is returned only when no candidate yields
C26_FirstCandidateWins ==
    (c_pc = "returned") =>
        LET els == c_html.els
            cands == IF Marked(els) # {} THEN Marked(els)
                     ELSE {k \in BigDivs(els) : \A j \in BigDivs(els) :
                              els[j].full < els[k].full \/ (els[j].full = els[k].full /\ k <= j)}
            yielding == {k \in cands : paragraphs_of(els[k]) # <<>>}
        IN /\ Range(c_cands) = cands
           /\ (yielding = {}) <=> (c_path = "body")
           /\ (yielding # {}) =>
                 \E k \in yielding :
                    /\ \A l \in yielding \ {k} : ExaminedBefore(els, k, l)
                    /\ c_paragraphs = paragraphs_of(els[k])
                    /\ c_cands[c_i] = k

\* the element with a known id stands after the element with a known class in
\* the page, both yield paragraphs, and the paragraphs of the id element came back
C26_Witness ==
    /\ c_pc = "returned"
    /\ Len(c_html.els) = 2
    /\ c_html.els[1].cls = "content" /\ c_html.els[1].id = ""
    /\ c_html.els[2].id = "content"
    /\ paragraphs_of(c_html.els[1]) # <<>>
    /\ c_paragraphs = paragraphs_of(c_html.els[2])
    /\ c_paragraphs # paragraphs_of(c_html.els[1])

\* the first candidate yields nothing and the second one is returned
C26_WitnessSecond ==
    /\ c_pc = "returned"
    /\ c_i = 2
    /\ c_path # "body"
    /\ paragraphs_of(c_html.els[c_cands[1]]) = <<>>

\* no marked element: the longest div of more than 120 characters is returned
C26_WitnessLargest ==
    /\ c_pc = "returned"
    /\ Marked(c_html.els) = {}
    /\ Cardinality(BigDivs(c_html.els)) = 2
    /\ c_path # "body"

\* ------------------------------------------------------------ claims on the batch mode
\* the urls of the links that pass the validity and duplicate checks, in order
AcceptedLinks ==
    LET urls == [i \in 1..Len(b_links) |-> abs_url(base_url, b_links[i].href)]
        keep == SortedSeq({i \in 1..Len(urls) :
                    /\ is_valid_chapter_url(urls[i])
                    /\ \A j \in 1..(i - 1) : urls[j] # urls[i]})
    IN [k \in 1..Len(keep) |-> urls[keep[k]]]

EmittedBatches == Flatten([k \in 1..Len(b_emitted) |-> b_emitted[k].batch])

\* C27: a batch extraction that ran to the end without a stop request returns
\* every link that passed the checks, and the returned list is the
\* concatenation of the emitted batches
C27_NothingLost ==
    (b_pc = "done" /\ ~b_stop) =>
        /\ Urls(b_all) = AcceptedLinks
        /\ b_all = EmittedBatches

\* what does hold: the returned list is the concatenation of the emitted
\* batches, and together with the batch still held back it is the accepted links
C27_LostOnlyHeldBack ==
    (b_pc = "done" /\ ~b_stop) =>
        /\ b_all = EmittedBatches
        /\ Urls(b_all \o b_batch) = AcceptedLinks

\* the last link of the container was passed over while a batch was held back
C27_WitnessLost ==
    /\ b_pc = "done"
    /\ ~b_stop
    /\ b_batch # <<>>
    /\ Len(b_all) < Len(AcceptedLinks)
    /\ b_all # <<>>


\* ------------------------------------------------------------ the reader's chapter loads
notChapter == <<index_html, web, flaky, exVars, run, first, fetchVars, batchVars, contentVars, numeralVars, refreshVars, callVars>>

\* the chapter pages of the site: one more than the book has chapters
ChapterUrls == {Url("num", n) : n \in 1..(MaxSlots + 1)}

\* the chapter lists an index extraction returns: seen_urls keeps the urls distinct
ChapterLists == {l \in [1..MaxSlots -> ChapterUrls] : \A i, j \in 1..MaxSlots : l[i] = l[j] => i = j}

\* the content extract_title_and_content_from_chapter returns for the page at u
chapter_content(u) == <<"content of", u>>

\* the cache file of an index: absent, not parseable as JSON, or a stored record
NoFile == [kind |-> "none"]
BadFile == [kind |-> "bad"]
ChapterData(i, u) == [kind |-> "data", index |-> i, url |-> u, content |-> chapter_content(u)]
EmptyData == [kind |-> "empty"]

\* one call of finished.emit; raised: a connected callback raised into the call
\* (the fallback Signal calls the callbacks in emit)
Finished(i, data, error, raised) == [index |-> i, data |-> data, error |-> error, raised |-> raised]

ThreadOver == t_pc \in {"ready", "ended", "escaped"}

\* the book has been imported: the chapters directory is empty, no chapter is loaded
InitChapter ==
    /\ ExtractIdle /\ FetchIdle /\ BatchIdle /\ ContentIdle /\ NumeralIdle /\ RefreshIdle /\ CallIdle
    /\ t_chapters \in ChapterLists
    /\ t_cache = [i \in 1..MaxSlots |-> NoFile]
    /\ t_pos = 0
    /\ t_pc = "ready"
    /\ t_url = <<>>
    /\ t_index = 0
    /\ t_err = ""
    /\ t_emitted = <<>>
    /\ t_requests = <<>>

\* novel_reader_pro.py lines 684-721: a thread for the chapter at index i
load_chapter_content(i) ==
    /\ t_url' = t_chapters'[i]
    /\ t_index' = i
    /\ t_pc' = "cache"
    /\ t_err' = ""
    /\ t_emitted' = <<>>
    /\ t_requests' = <<>>

\* novel_reader_pro.py lines 669-682: a click on a chapter, ignored while _fetching
on_chapter_clicked ==
    /\ t_pc = "ready" \/ (t_pc = "ended" /\ ~t_emitted[Len(t_emitted)].raised)
    /\ \E i \in 1..Len(t_chapters) :
          /\ UNCHANGED t_chapters
          /\ load_chapter_content(i)
    /\ UNCHANGED <<notChapter, t_cache, t_pos>>

\* novel_reader_pro.py lines 576-595 and 602-625: the refreshed list replaces the
\* stored one, the chapters directory is kept, and the book is reopened at the
\* stored position
refresh_and_open ==
    /\ ThreadOver
    /\ \E l \in ChapterLists :
          /\ t_chapters' = l
          /\ t_pos' = IF 0 <= t_pos /\ t_pos < Len(l) THEN t_pos ELSE 0
          /\ load_chapter_content(t_pos' + 1)
    /\ UNCHANGED <<notChapter, t_cache>>

\* on_chapter_fetched, novel_reader_pro.py lines 723-752: a delivery without
\* error stores the position
Delivered(e) == IF e.error = "" /\ ~e.raised THEN e.index - 1 ELSE t_pos

\* lines 1239-1246: the cache file parses and its content is emitted; a callback
\* that raises is caught by the inner handler and the run goes on to the request
RunCacheHit ==
    /\ t_pc = "cache"
    /\ t_cache[t_index].kind = "data"
    /\ \E raised \in BOOLEAN :
          LET e == Finished(t_index, t_cache[t_index], "", raised)
          IN /\ t_emitted' = Append(t_emitted, e)
             /\ t_pos' = Delivered(e)
             /\ t_pc' = IF raised THEN "fetch" ELSE "ended"
    /\ UNCHANGED <<notChapter, t_chapters, t_cache, t_url, t_index, t_err, t_requests>>

\* lines 1240-1246: no file, or a file json.loads refuses
RunCacheMiss ==
    /\ t_pc = "cache"
    /\ t_cache[t_index].kind \in {"none", "bad"}
    /\ t_pc' = "fetch"
    /\ UNCHANGED <<notChapter, t_chapters, t_cache, t_pos, t_url, t_index, t_err, t_emitted, t_requests>>

\* lines 1247-1250: the request succeeds and the record is built
RunFetchOk ==
    /\ t_pc = "fetch"
    /\ t_requests' = Append(t_requests, t_url)
    /\ t_pc' = "write"
    /\ UNCHANGED <<notChapter, t_chapters, t_cache, t_pos, t_url, t_index, t_err, t_emitted>>

\* line 1248: fetch_html raises
RunFetchFail ==
    /\ t_pc = "fetch"
    /\ t_requests' = Append(t_requests, t_url)
    /\ t_pc' = "except"
    /\ t_err' = "fetch"
    /\ UNCHANGED <<notChapter, t_chapters, t_cache, t_pos, t_url, t_index, t_emitted>>

\* lines 1251-1252: the record is stored in the file of the index
RunWriteOk ==
    /\ t_pc = "write"
    /\ t_cache' = [t_cache EXCEPT ![t_index] = ChapterData(t_index, t_url)]
    /\ t_pc' = "emit"
    /\ UNCHANGED <<notChapter, t_chapters, t_pos, t_url, t_index, t_err, t_emitted, t_requests>>

\* lines 1251-1252: mkdir or write_text raises; the file is untouched or truncated
RunWriteFail ==
    /\ t_pc = "write"
    /\ t_cache' \in {t_cache, [t_cache EXCEPT ![t_index] = BadFile]}
    /\ t_pc' = "except"
    /\ t_err' = "write"
    /\ UNCHANGED <<notChapter, t_chapters, t_pos, t_url, t_index, t_emitted, t_requests>>

\* line 1253: the fetched record is emitted; a callback that raises is caught
\* by the outer handler
RunEmit ==
    /\ t_pc = "emit"
    /\ \E raised \in BOOLEAN :
          LET e == Finished(t_index, ChapterData(t_index, t_url), "", raised)
          IN /\ t_emitted' = Append(t_emitted, e)
             /\ t_pos' = Delivered(e)
             /\ t_pc' = IF raised THEN "except" ELSE "ended"
             /\ t_err' = IF raised THEN "callback" ELSE t_err
    /\ UNCHANGED <<notChapter, t_chapters, t_cache, t_url, t_index, t_requests>>

\* lines 1254-1255: the failure is emitted; a callback that raises leaves run
RunExcept ==
    /\ t_pc = "except"
    /\ \E raised \in BOOLEAN :
          /\ t_emitted' = Append(t_emitted, Finished(t_index, EmptyData, t_err, raised))
          /\ t_pc' = IF raised THEN "escaped" ELSE "ended"
    /\ UNCHANGED <<notChapter, t_chapters, t_cache, t_pos, t_url, t_index, t_err, t_requests>>

NextChapter ==
    \/ on_chapter_clicked
    \/ refresh_and_open
    \/ RunCacheHit
    \/ RunCacheMiss
    \/ RunFetchOk
    \/ RunFetchFail
    \/ RunWriteOk
    \/ RunWriteFail
    \/ RunEmit
    \/ RunExcept

SpecChapter == InitChapter /\ [][NextChapter]_vars

\* ------------------------------------------------------------ claims on ChapterFetchThread
\* C28: the record delivered for a request (chapter_url, index) carries the
\* requested url and the content extracted from that url, also after an index
\* refresh that changed the url at the index
C28_DeliveredBelongs ==
    \A k \in 1..Len(t_emitted) :
        t_emitted[k].error = "" =>
            /\ t_emitted[k].data.url = t_url
            /\ t_emitted[k].data.content = chapter_content(t_url)

\* the delivered record is the one stored under the index, whatever url it was fetched from
C28_DeliveredIsOfIndex ==
    \A k \in 1..Len(t_emitted) :
        t_emitted[k].error = "" =>
            /\ t_emitted[k].data.index = t_index
            /\ t_emitted[k].data.url \in ChapterUrls
            /\ t_emitted[k].data.content = chapter_content(t_emitted[k].data.url)
            /\ (t_requests # <<>> /\ k = Len(t_emitted) /\ t_pc = "ended") => t_emitted[k].data.url = t_url

\* a cache hit after a refresh delivers the record of the url that sat at the index before
C28_WitnessStale ==
    /\ t_pc = "ended"
    /\ t_requests = <<>>
    /\ Len(t_emitted) = 1
    /\ t_emitted[1].error = ""
    /\ t_emitted[1].data.url # t_url
    /\ t_chapters[t_index] = t_url


RunOver == t_pc \in {"ended", "escaped"}

\* what one emission may be: a success (index, data, "") or a failure (index, {}, error)
WellFormed(e) ==
    /\ e.index = t_index
    /\ e.error = "" => e.data.kind = "data"
    /\ e.error # "" => e.data = EmptyData

\* C29: a run of ChapterFetchThread.run emits finished exactly once on every
\* path, a callback that raises included; a cache hit issues no request; the
\* emission is (index, data, "") or (index, {}, non-empty error)
C29_FinishedOnce ==
    RunOver =>
        /\ Len(t_emitted) = 1
        /\ WellFormed(t_emitted[1])
        /\ Len(t_requests) <= 1
        /\ t_requests = <<>> => t_emitted[1].data = t_cache[t_index]

\* the same holds of the runs in which no callback raises into emit; no run
\* emits more than three times or requests more than once
C29_FinishedOnceQuiet ==
    RunOver =>
        /\ Len(t_emitted) \in 1..3
        /\ \A k \in 1..Len(t_emitted) : WellFormed(t_emitted[k])
        /\ Len(t_requests) <= 1
        /\ (\A k \in 1..Len(t_emitted) : ~t_emitted[k].raised) =>
              /\ Len(t_emitted) = 1
              /\ t_requests = <<>> => t_emitted[1].data = t_cache[t_index]

\* a callback raises on the emission of a valid cache file: the run goes on to
\* request the page and emits a second time
C29_WitnessTwice ==
    /\ t_pc = "ended"
    /\ Len(t_emitted) = 2
    /\ t_emitted[1].raised
    /\ t_emitted[1].error = ""
    /\ t_emitted[2].error = ""
    /\ t_requests = <<t_url>>


\* ------------------------------------------------------------ claims on fetch_html, every value of retries
FetchOver == f_pc \in {"returned", "raised"}

\* C30: a call of fetch_html returns a string or raises, for every value of
\* retries, retries <= 0 included; it never returns another value and never
\* ends without having issued a request
C30_StringOrRaise ==
    FetchOver =>
        /\ f_pc = "returned" => f_out.kind = "str"
        /\ f_log # <<>>

\* with retries >= 1 the call returns a string or raises after a request; with
\* retries <= 0 the loop body never runs and None is returned without a request
C30_NoneWithoutRetries ==
    FetchOver =>
        IF f_retries >= 1
        THEN /\ f_pc = "returned" => f_out.kind = "str"
             /\ f_log # <<>>
        ELSE /\ f_pc = "returned"
             /\ f_out = NoneValue
             /\ f_log = <<>>

\* a call with a negative retries has returned None
C30_WitnessNone ==
    /\ f_pc = "returned"
    /\ f_retries < 0
    /\ f_out = NoneValue
    /\ f_log = <<>>

====
